---- MODULE Spec2Model ----
(***************************************************************************)
(* Rule5DraftDash: the data-acquisition and merge pipeline.                *)
(*                                                                         *)
(*   Spec       one fetch cycle of fetch_rule5_players: a pool of worker   *)
(*              tasks (fetch_team_data) and the orchestrator's collection  *)
(*              loop over as_completed.                                    *)
(*   FairSpec   Spec with the scheduling fairness of the thread pool.      *)
(*   SpecCache  render() of the player-data page over st.cache_data.       *)
(*   SpecClient the source clients, one call per HTTP outcome.             *)
(*   SpecTable  merge_rule5_with_savant, merge_rule5_with_minors_stats,    *)
(*              apply_filters and display_aaa_section, one call per        *)
(*              choice of arguments.                                       *)
(*   SpecHelper the helpers (normalize_numeric_column,                     *)
(*              get_primary_position, get_highest_level,                   *)
(*              clean_player_name) and get_all_minors_stats, one call per  *)
(*              input.                                                     *)
(*   SpecPool   a fetch cycle over more organizations than pool workers.   *)
(*   SpecDisplay display_filters_and_table on the table of a returned      *)
(*              cycle.                                                     *)
(*                                                                         *)
(* Python values are tagged records [k, n, s]: k is "null" (None / NaN),   *)
(* "num" (n holds the number in hundredths, so 0.82 is 82 and 5 is 500),   *)
(* "str" (s is the text as a sequence of one-character strings) or "exc"   *)
(* (an exception raised instead of a value, s = <<its class name>>).       *)
(***************************************************************************)
EXTENDS Integers, Sequences, FiniteSets, Bags, TLC

VARIABLES
    pc,              \* fetch_rule5_players: "submit", "collect", "done"
    resp,            \* what the roster endpoint answers for each organization
    task,            \* each future: "queued", "running", "finished", "collected"
    future,          \* each finished future's outcome (players or exception)
    all_players,     \* the orchestrator's aggregate list
    completed,       \* the progress counter
    log,             \* st.warning / st.error calls
    requests,        \* HTTP requests issued, per organization
    df,              \* the table fetch_rule5_players returns
    now,             \* wall clock, seconds
    cache,           \* st.cache_data entry of fetch_rule5_players
    session,         \* st.session_state.last_fetch_time and the table shown
    args,            \* a call of a pure function: its name and arguments
    ret              \* what that call returned (or raised)

vars == <<pc, resp, task, future, all_players, completed, log, requests, df,
          now, cache, session, args, ret>>

cycleVars == <<pc, resp, task, future, all_players, completed, log, requests, df>>
cacheVars == <<now, cache, session>>
pureVars  == <<args, ret>>

----------------------------------------------------------------------------
(* Values *)

Null   == [k |-> "null", n |-> 0, s |-> <<>>]
Num(x) == [k |-> "num",  n |-> x, s |-> <<>>]
Str(t) == [k |-> "str",  n |-> 0, s |-> t]
Exc(c) == [k |-> "exc",  n |-> 0, s |-> <<c>>]

IsNull(v) == v.k = "null"
IsExc(v)  == v.k = "exc"

\* x and y/100 as one number in hundredths
Hundredths(x, y) == x * 100 + y

\* A list and a tuple (lo, hi), as the filter arguments of apply_filters
List(items)   == [k |-> "list",  n |-> 0, s |-> items]
Tuple(lo, hi) == [k |-> "tuple", n |-> 0, s |-> <<lo, hi>>]

\* Python truthiness of a value: None, 0, "", [] and () are falsy
Truthy(v) == CASE v.k = "null" -> FALSE
               [] v.k = "num"  -> v.n # 0
               [] v.k \in {"str", "list", "tuple"} -> v.s # <<>>
               [] OTHER        -> TRUE

----------------------------------------------------------------------------
(* Text *)

IsSpace(c) == c = " "

RECURSIVE LStrip(_)
LStrip(t) == IF t # <<>> /\ IsSpace(Head(t)) THEN LStrip(Tail(t)) ELSE t

RECURSIVE RStrip(_)
RStrip(t) == IF t # <<>> /\ IsSpace(t[Len(t)])
             THEN RStrip(SubSeq(t, 1, Len(t) - 1)) ELSE t

\* str.strip()
Strip(t) == RStrip(LStrip(t))

LowerChar(c) == CASE c = "J" -> "j"
                  [] c = "S" -> "s"
                  [] c = "A" -> "a"
                  [] c = "B" -> "b"
                  [] OTHER   -> c

\* str.lower()
Lower(t) == [i \in 1..Len(t) |-> LowerChar(t[i])]

\* str.split(sep)[0]: the text before the first sep, the whole text without one
RECURSIVE SplitFirst(_, _)
SplitFirst(t, sep) == IF t = <<>> \/ Head(t) = sep THEN <<>>
                      ELSE <<Head(t)>> \o SplitFirst(Tail(t), sep)

DigitVal(c) == CASE c = "0" -> 0 [] c = "1" -> 1 [] c = "2" -> 2 [] c = "3" -> 3
                 [] c = "4" -> 4 [] c = "5" -> 5 [] c = "6" -> 6 [] c = "7" -> 7
                 [] c = "8" -> 8 [] c = "9" -> 9 [] OTHER -> -1

IsDigits(t) == t # <<>> /\ \A i \in 1..Len(t) : DigitVal(t[i]) >= 0

RECURSIVE DigitsVal(_)
DigitsVal(t) == IF t = <<>> THEN 0
                ELSE DigitsVal(SubSeq(t, 1, Len(t) - 1)) * 10 + DigitVal(t[Len(t)])

\* float(text): surrounding whitespace is ignored; a run of digits is its
\* number; any other text of the model's alphabet raises ValueError.
ParseFloat(t) == IF IsDigits(Strip(t)) THEN Num(Hundredths(DigitsVal(Strip(t)), 0))
                 ELSE Exc("ValueError")

----------------------------------------------------------------------------
(* src/data/fangraphs.py: the pure helpers *)

\* float(value): a number is itself, a text is parsed
ToFloat(v) == CASE v.k = "num" -> v
                [] v.k = "str" -> ParseFloat(v.s)
                [] OTHER       -> Exc("TypeError")

\* normalize_numeric_column without the except clause of lines 20-21
normalize_numeric_column_no_except(value) ==
    IF ~Truthy(value) THEN Null ELSE ToFloat(value)

normalize_numeric_column(value) ==
    IF ~Truthy(value) THEN Null
    ELSE IF IsExc(ToFloat(value)) THEN Null ELSE ToFloat(value)

\* get_primary_position without the .strip() of line 29
get_primary_position_no_strip(position) ==
    IF ~Truthy(position) THEN position
    ELSE IF position.k = "str" THEN Str(SplitFirst(position.s, "/"))
    ELSE Exc("AttributeError")

get_primary_position(position) ==
    IF ~Truthy(position) THEN position
    ELSE IF position.k = "str" THEN Str(Strip(SplitFirst(position.s, "/")))
    ELSE Exc("AttributeError")

----------------------------------------------------------------------------
(* src/utils/constants.py *)

CACHE_TTL == 3600
MAX_WORKERS == 5
MIN_PA_THRESHOLD == 50
MIN_IP_THRESHOLD == 20

\* TEAMS: team id -> team code (ids 1..30); a code is held as one symbol
TEAMS == <<"LAA", "BAL", "BOS", "CHW", "CLE", "DET", "KC", "MIN", "NYY", "ATH",
           "SEA", "TB", "TEX", "TOR", "ARI", "ATL", "CHC", "CIN", "COL", "MIA",
           "HOU", "LAD", "MIL", "WAS", "NYM", "PHI", "PIT", "STL", "SD", "SF">>

\* The model runs a cycle over the first NumTeams organizations of TEAMS.
NumTeams == 3
TeamIds == 1..NumTeams

team_abbr(teamid) == Str(<<TEAMS[teamid]>>)

----------------------------------------------------------------------------
(* Text constants of the model's inputs *)

T_R5  == <<"R", "5">>
T_AAA == <<"A", "A", "A">>
T_AA  == <<"A", "A">>
\* 'Jon Singleton' and 'jon singleton '
T_JS  == <<"J", "o", "n", " ", "S", "i", "n", "g", "l", "e", "t", "o", "n">>
T_js_ == <<"j", "o", "n", " ", "s", "i", "n", "g", "l", "e", "t", "o", "n", " ">>
T_AB  == <<"A", "b">>
T_SS2B == <<"S", "S", "/", "2", "B">>
T_SS  == <<"S", "S">>
T_1B  == <<"1", "B">>

----------------------------------------------------------------------------
(* HTTP responses and JSON bodies *)

\* A JSON value as the clients look at it: t is its top-level type, items the
\* elements of a list (or of the list under the key 'data' of an object),
\* keys the keys of an object, dataT the type of an object's 'data' value.
JList(items)         == [t |-> "list", items |-> items, keys |-> <<>>, dataT |-> "none"]
JDict(keys)          == [t |-> "dict", items |-> <<>>, keys |-> keys, dataT |-> "none"]
JData(dataT, items)  == [t |-> "dict", items |-> items, keys |-> <<"data">>, dataT |-> dataT]
JNull                == [t |-> "null", items |-> <<>>, keys |-> <<>>, dataT |-> "none"]
JNumber              == [t |-> "num",  items |-> <<>>, keys |-> <<>>, dataT |-> "none"]

\* An element of a JSON list: an object (its fields) or something else
Obj(fields) == [isobj |-> TRUE,  fields |-> fields]
NotObj      == [isobj |-> FALSE, fields |-> <<>>]

\* dict.get(key): None for an absent key
Get(p, key) == IF key \in DOMAIN p.fields THEN p.fields[key] ELSE Null

\* What one HTTP call does: requests.get raises (ConnectionError, Timeout),
\* raise_for_status raises (HTTPError), res.json() raises
\* (requests.exceptions.JSONDecodeError), or a JSON body comes back. The four
\* exceptions are all subclasses of requests.exceptions.RequestException.
RequestFailures == {"conn_error", "timeout", "http_error", "bad_json"}
Failed(kind) == [kind |-> kind, body |-> JNull]
Json(body)   == [kind |-> "json", body |-> body]
\* IsRequestException with res.json() raising a plain ValueError, which
\* "except requests.exceptions.RequestException" does not catch
IsRequestExceptionNoJson(r) == r.kind \in RequestFailures \ {"bad_json"}

IsRequestException(r) == r.kind \in RequestFailures

----------------------------------------------------------------------------
(* Tables: pd.DataFrame as its set of columns and its sequence of rows,     *)
(* a row being a function from the column names to values.                 *)

EmptyDataFrame == [cols |-> {}, rows |-> <<>>]

RECURSIVE UnionKeys(_)
UnionKeys(dicts) == IF dicts = <<>> THEN {}
                    ELSE DOMAIN Head(dicts) \cup UnionKeys(Tail(dicts))

\* pd.DataFrame(list of dicts): the columns are the keys, a key a dict lacks
\* is missing (NaN) in its row
DataFrame(dicts) ==
    [cols |-> UnionKeys(dicts),
     rows |-> [i \in 1..Len(dicts) |->
                 [c \in UnionKeys(dicts) |->
                    IF c \in DOMAIN dicts[i] THEN dicts[i][c] ELSE Null]]]

\* df.empty
IsEmpty(d) == d.rows = <<>> \/ d.cols = {}

\* df[mask]: the rows whose entry in the boolean mask is TRUE, in order
RECURSIVE SelectRows(_, _)
SelectRows(rows, mask) ==
    IF rows = <<>> THEN <<>>
    ELSE (IF Head(mask) THEN <<Head(rows)>> ELSE <<>>)
         \o SelectRows(Tail(rows), Tail(mask))

RECURSIVE BagOf(_)
BagOf(rows) == IF rows = <<>> THEN EmptyBag
               ELSE SetToBag({Head(rows)}) (+) BagOf(Tail(rows))

----------------------------------------------------------------------------
(* src/data/fangraphs.py: fetch_team_data *)

\* IsR5 that looks at options alone
IsR5OptionsOnly(p) == Get(p, "options") = Str(T_R5)

\* Line 44
IsR5(p) == Get(p, "options") = Str(T_R5) \/ Get(p, "options1") = Str(T_R5)

player_dict(p, abbr) ==
    ("Player" :> Get(p, "player")) @@
    ("Position" :> get_primary_position(Get(p, "position"))) @@
    ("Age" :> normalize_numeric_column(Get(p, "age"))) @@
    ("Level" :> Get(p, "mlevel")) @@
    ("Current Org" :> abbr) @@
    ("Org Rank" :> normalize_numeric_column(Get(p, "Org_Rank_Next"))) @@
    ("Overall Rank" :> normalize_numeric_column(Get(p, "Overall_Rank")))

\* The loop over the payload (lines 43-54): the players appended so far and
\* the exception, if any, that ended the loop.
RECURSIVE RosterLoop(_, _, _)
RosterLoop(items, abbr, players) ==
    IF items = <<>> THEN [exc |-> "none", players |-> players]
    ELSE IF ~Head(items).isobj
         THEN [exc |-> "AttributeError", players |-> players]
    ELSE IF ~IsR5(Head(items))
         THEN RosterLoop(Tail(items), abbr, players)
    ELSE IF IsExc(get_primary_position(Get(Head(items), "position")))
         THEN [exc |-> "AttributeError", players |-> players]
    ELSE RosterLoop(Tail(items), abbr,
                    Append(players, player_dict(Head(items), abbr)))

\* What "for p in data" runs over
RosterIter(body) ==
    CASE body.t = "list" -> [exc |-> "none", items |-> body.items]
      [] body.t = "dict" -> [exc |-> "none",
                             items |-> [i \in 1..Len(body.keys) |-> NotObj]]
      [] OTHER           -> [exc |-> "TypeError", items |-> <<>>]

\* fetch_team_data(teamid, team_abbr) when the request is answered by r:
\* exc is the exception that leaves the function ("none": it returns players),
\* warned says whether st.warning was called.
fetch_team_data(abbr, r) ==
    IF IsRequestException(r)
    THEN [exc |-> "none", players |-> <<>>, warned |-> TRUE]
    ELSE IF RosterIter(r.body).exc # "none"
    THEN [exc |-> RosterIter(r.body).exc, players |-> <<>>, warned |-> FALSE]
    ELSE LET l == RosterLoop(RosterIter(r.body).items, abbr, <<>>)
         IN  [exc |-> l.exc,
              players |-> IF l.exc = "none" THEN l.players ELSE <<>>,
              warned |-> FALSE]

----------------------------------------------------------------------------
(* Roster payloads of the model *)

\* options == 'R5', a two-position string, age as text
P_JS == Obj([player |-> Str(T_JS), position |-> Str(T_SS2B), age |-> Str(<<"2", "7">>),
             mlevel |-> Str(T_AAA), options |-> Str(T_R5),
             Org_Rank_Next |-> Num(Hundredths(5, 0)), Overall_Rank |-> Str(<<"abc">>)])

\* options1 == 'R5', no options key, fractional age, no ranks
P_AB == Obj([player |-> Str(T_AB), position |-> Str(T_1B), age |-> Num(Hundredths(22, 50)),
             mlevel |-> Str(T_AA), options1 |-> Str(T_R5)])

\* not Rule 5 eligible
P_Not == Obj([player |-> Str(T_SS), position |-> Str(T_SS), age |-> Num(Hundredths(30, 0)),
              mlevel |-> Str(T_AAA), options |-> Str(<<>>), options1 |-> Null])

\* eligible, but the position is a number: .split raises AttributeError
P_BadPos == Obj([player |-> Str(T_AB), position |-> Num(Hundredths(6, 0)),
                 options |-> Str(T_R5)])

\* The organizations of a cycle that keeps the pool full, and what the
\* roster endpoint answers them
PoolTeams == 7
PoolIds == 1..PoolTeams
PoolResponses == { Failed("timeout"), Json(JList(<<>>)) }

\* What the roster endpoint may answer to one organization in a cycle
CycleResponses ==
    { Failed("timeout"),
      Json(JList(<<P_JS, P_Not, P_AB>>)),
      Json(JList(<<P_AB>>)),
      Json(JList(<<P_JS, NotObj>>)) }

----------------------------------------------------------------------------
(* src/data/fangraphs.py: fetch_rule5_players, one cycle *)

Warning(abbr) == [level |-> "warning", team |-> abbr]
Error(abbr)   == [level |-> "error",   team |-> abbr]

\* The organizations of the cycle: one future each (lines 72-75)
Orgs == DOMAIN task

Running == {t \in Orgs : task[t] = "running"}

NoFuture == [exc |-> "none", players |-> <<>>, warned |-> FALSE]

\* CollectResult with a task's exception discarding what was collected so far
CollectResultDiscard(fut, abbr, all, done, lg) ==
    IF fut.exc = "none"
    THEN [all_players |-> all \o fut.players, completed |-> done + 1, log |-> lg]
    ELSE [all_players |-> <<>>, completed |-> done, log |-> lg \cup {Error(abbr)}]

\* CollectResult with the aggregate assigned instead of extended
CollectResultAssign(fut, abbr, all, done, lg) ==
    IF fut.exc = "none"
    THEN [all_players |-> fut.players, completed |-> done + 1, log |-> lg]
    ELSE [all_players |-> all, completed |-> done, log |-> lg \cup {Error(abbr)}]

\* CollectResult with the progress counter counting rows instead of tasks
CollectResultCountRows(fut, abbr, all, done, lg) ==
    IF fut.exc = "none"
    THEN [all_players |-> all \o fut.players, completed |-> done + Len(fut.players),
          log |-> lg]
    ELSE [all_players |-> all, completed |-> done, log |-> lg \cup {Error(abbr)}]

\* The body of the collection loop for one finished future (lines 79-87)
CollectResult(fut, abbr, all, done, lg) ==
    IF fut.exc = "none"
    THEN [all_players |-> all \o fut.players, completed |-> done + 1, log |-> lg]
    ELSE [all_players |-> all, completed |-> done, log |-> lg \cup {Error(abbr)}]

\* Lines 92-96: the table of the aggregate, primary positions re-applied
ResultFrame(all) ==
    LET d == DataFrame(all)
    IN  IF ~IsEmpty(d) /\ "Position" \in d.cols
        THEN [d EXCEPT !.rows =
                [i \in 1..Len(d.rows) |->
                   [d.rows[i] EXCEPT !["Position"] = get_primary_position(@)]]]
        ELSE d

Init ==
    /\ pc = "submit"
    /\ resp \in [TeamIds -> CycleResponses]
    /\ task = [t \in TeamIds |-> "new"]
    /\ future = [t \in TeamIds |-> NoFuture]
    /\ all_players = <<>>
    /\ completed = 0
    /\ log = {}
    /\ requests = [t \in TeamIds |-> 0]
    /\ df = EmptyDataFrame
    /\ now = 0
    /\ cache = [valid |-> FALSE]
    /\ session = [shown |-> FALSE]
    /\ args = [fn |-> "none"]
    /\ ret = [fn |-> "none"]

\* Lines 71-77: one task per organization is handed to the pool
Submit ==
    /\ pc = "submit"
    /\ task' = [t \in Orgs |-> "queued"]
    /\ completed' = 0
    /\ pc' = "collect"
    /\ UNCHANGED <<resp, future, all_players, log, requests, df>>
    /\ UNCHANGED <<cacheVars, pureVars>>

\* Start with a pool that has a thread for every task
StartUnbounded(t) ==
    /\ task[t] = "queued"
    /\ \A u \in Orgs : u < t => task[u] # "queued"
    /\ task' = [task EXCEPT ![t] = "running"]
    /\ requests' = [requests EXCEPT ![t] = @ + 1]
    /\ UNCHANGED <<pc, resp, future, all_players, completed, log, df>>
    /\ UNCHANGED <<cacheVars, pureVars>>

\* A free worker takes the oldest queued task and issues its request (line 39)
Start(t) ==
    /\ task[t] = "queued"
    /\ \A u \in Orgs : u < t => task[u] # "queued"
    /\ Cardinality(Running) < MAX_WORKERS
    /\ task' = [task EXCEPT ![t] = "running"]
    /\ requests' = [requests EXCEPT ![t] = @ + 1]
    /\ UNCHANGED <<pc, resp, future, all_players, completed, log, df>>
    /\ UNCHANGED <<cacheVars, pureVars>>

\* fetch_team_data tabulated over the organizations and the model's answers
TaskOutcome ==
    [t \in DOMAIN TEAMS |->
       [r \in CycleResponses \cup PoolResponses |-> fetch_team_data(team_abbr(t), r)]]

\* Finish with the task appending its players to the shared aggregate
FinishShared(t) ==
    /\ task[t] = "running"
    /\ future' = [future EXCEPT ![t] = TaskOutcome[t][resp[t]]]
    /\ all_players' = all_players \o TaskOutcome[t][resp[t]].players
    /\ log' = IF TaskOutcome[t][resp[t]].warned
              THEN log \cup {Warning(team_abbr(t))} ELSE log
    /\ task' = [task EXCEPT ![t] = "finished"]
    /\ UNCHANGED <<pc, resp, completed, requests, df>>
    /\ UNCHANGED <<cacheVars, pureVars>>

\* Finish with a failed request handed back to the pool once
FinishRetry(t) ==
    /\ task[t] = "running"
    /\ IF IsRequestException(resp[t]) /\ requests[t] < 2
       THEN /\ task' = [task EXCEPT ![t] = "queued"]
            /\ UNCHANGED <<future, log>>
       ELSE /\ future' = [future EXCEPT ![t] = TaskOutcome[t][resp[t]]]
            /\ log' = IF TaskOutcome[t][resp[t]].warned
                      THEN log \cup {Warning(team_abbr(t))} ELSE log
            /\ task' = [task EXCEPT ![t] = "finished"]
    /\ UNCHANGED <<pc, resp, all_players, completed, requests, df>>
    /\ UNCHANGED <<cacheVars, pureVars>>

\* The task's request is answered and fetch_team_data ends (lines 39-59)
Finish(t) ==
    /\ task[t] = "running"
    /\ LET r == TaskOutcome[t][resp[t]]
       IN  /\ future' = [future EXCEPT ![t] = r]
           /\ log' = IF r.warned THEN log \cup {Warning(team_abbr(t))} ELSE log
    /\ task' = [task EXCEPT ![t] = "finished"]
    /\ UNCHANGED <<pc, resp, all_players, completed, requests, df>>
    /\ UNCHANGED <<cacheVars, pureVars>>

\* Collect without the try/except of lines 80-87: a task's exception leaves
\* the loop and the cycle never returns
CollectNoExcept(t) ==
    /\ pc = "collect"
    /\ task[t] = "finished"
    /\ IF future[t].exc = "none"
       THEN /\ all_players' = all_players \o future[t].players
            /\ completed' = completed + 1
            /\ pc' = pc
       ELSE /\ pc' = "raised"
            /\ UNCHANGED <<all_players, completed>>
    /\ task' = [task EXCEPT ![t] = "collected"]
    /\ UNCHANGED <<resp, future, log, requests, df>>
    /\ UNCHANGED <<cacheVars, pureVars>>

\* as_completed yields a finished future; the loop body runs (lines 78-87)
Collect(t) ==
    /\ pc = "collect"
    /\ task[t] = "finished"
    /\ LET c == CollectResult(future[t], team_abbr(t), all_players, completed, log)
       IN  /\ all_players' = c.all_players
           /\ completed' = c.completed
           /\ log' = c.log
    /\ task' = [task EXCEPT ![t] = "collected"]
    /\ UNCHANGED <<pc, resp, future, requests, df>>
    /\ UNCHANGED <<cacheVars, pureVars>>

\* Every future was yielded: lines 89-98
Return ==
    /\ pc = "collect"
    /\ \A t \in Orgs : task[t] = "collected"
    /\ df' = ResultFrame(all_players)
    /\ pc' = "done"
    /\ UNCHANGED <<resp, task, future, all_players, completed, log, requests>>
    /\ UNCHANGED <<cacheVars, pureVars>>

Next ==
    \/ Submit
    \/ \E t \in Orgs : Start(t)
    \/ \E t \in Orgs : Finish(t)
    \/ \E t \in Orgs : Collect(t)
    \/ Return

Spec == Init /\ [][Next]_vars

\* SpecPool: a cycle over more organizations than the pool has workers,
\* every organization answering alike
InitPool ==
    /\ pc = "submit"
    /\ resp \in {[t \in PoolIds |-> r] : r \in PoolResponses}
    /\ task = [t \in PoolIds |-> "new"]
    /\ future = [t \in PoolIds |-> NoFuture]
    /\ all_players = <<>>
    /\ completed = 0
    /\ log = {}
    /\ requests = [t \in PoolIds |-> 0]
    /\ df = EmptyDataFrame
    /\ now = 0
    /\ cache = [valid |-> FALSE]
    /\ session = [shown |-> FALSE]
    /\ args = [fn |-> "none"]
    /\ ret = [fn |-> "none"]

SpecPool == InitPool /\ [][Next]_vars

\* The pool runs every submitted task, every request is answered or times out
\* (REQUEST_TIMEOUT), and the orchestrator's thread keeps running.
FairSpec == Spec /\ WF_vars(Next)

----------------------------------------------------------------------------
(* src/data/prospect_savant.py: fetch_prospect_savant_data *)

SeqContains(seq, x) == \E i \in 1..Len(seq) : seq[i] = x

\* prospect_score that tests the truth of score_p instead of "is not None"
prospect_score_if_truthy(score_p) ==
    IF IsNull(score_p) \/ score_p.n = 0 THEN Null ELSE Num(score_p.n * 100)

\* Line 31 / 62: score_p * 100 if score_p is not None else None
prospect_score(score_p) ==
    IF IsNull(score_p) THEN Null ELSE Num(score_p.n * 100)

\* Lines 33-49
hitter_dict(player) ==
    ("Player" :> Get(player, "name")) @@
    ("Age" :> Get(player, "age")) @@
    ("Position" :> get_primary_position(Get(player, "Position"))) @@
    ("Prospect Score" :> prospect_score(Get(player, "score_p"))) @@
    ("xBA" :> Get(player, "xba")) @@
    ("xSLG" :> Get(player, "xslg")) @@
    ("EV" :> Get(player, "ev")) @@
    ("Barrel%" :> Get(player, "barrelpa")) @@
    ("Chase%" :> Get(player, "chaserate")) @@
    ("K%" :> Get(player, "krate")) @@
    ("BB%" :> Get(player, "bbrate")) @@
    ("xwOBA" :> Get(player, "xwoba")) @@
    ("Sprint Speed" :> Get(player, "spd")) @@
    ("PA" :> Get(player, "pa")) @@
    ("Player Type" :> Str(<<"Hitter">>))

\* player.get("Position", "P"): the default stands for an absent key only
PitcherPosition(player) ==
    IF "Position" \in DOMAIN player.fields THEN player.fields["Position"]
    ELSE Str(<<"P">>)

\* Lines 64-79
pitcher_dict(player) ==
    ("Player" :> Get(player, "name")) @@
    ("Age" :> Get(player, "age")) @@
    ("Position" :> get_primary_position(PitcherPosition(player))) @@
    ("Prospect Score" :> prospect_score(Get(player, "score_p"))) @@
    ("Max Velo" :> Get(player, "max_velo")) @@
    ("xBA" :> Get(player, "xba")) @@
    ("xSLG" :> Get(player, "xslg")) @@
    ("K%" :> Get(player, "krate")) @@
    ("BB%" :> Get(player, "bbrate")) @@
    ("Chase%" :> Get(player, "chaserate")) @@
    ("xwOBA" :> Get(player, "xwoba")) @@
    ("Whiff%" :> Get(player, "whiffrate")) @@
    ("IP" :> Get(player, "ip")) @@
    ("Player Type" :> Str(<<"Pitcher">>))

\* The loop over hitters_data["data"] / pitchers_data["data"]
RECURSIVE SavantLoop(_, _, _)
SavantLoop(items, type, all_data) ==
    IF items = <<>> THEN [exc |-> "none", all_data |-> all_data]
    ELSE IF ~Head(items).isobj
         THEN [exc |-> "AttributeError", all_data |-> all_data]
    ELSE IF IsExc(get_primary_position(
                    IF type = "Hitter" THEN Get(Head(items), "Position")
                    ELSE PitcherPosition(Head(items))))
         THEN [exc |-> "AttributeError", all_data |-> all_data]
    ELSE SavantLoop(Tail(items), type,
                    Append(all_data, IF type = "Hitter" THEN hitter_dict(Head(items))
                                     ELSE pitcher_dict(Head(items))))

\* One of the two try blocks (lines 23-51, 54-81) when its request is
\* answered by r: the exception that leaves it, the records so far, and
\* whether st.warning was called
SavantBlock(r, type, all_data) ==
    IF IsRequestException(r)
    THEN [exc |-> "none", all_data |-> all_data, warned |-> TRUE]
    ELSE IF r.body.t \notin {"list", "dict"}
    THEN [exc |-> "TypeError", all_data |-> all_data, warned |-> FALSE]
    ELSE IF r.body.t = "list" \/ ~SeqContains(r.body.keys, "data")
    THEN [exc |-> "none", all_data |-> all_data, warned |-> FALSE]
    ELSE IF r.body.dataT # "list"
    THEN [exc |-> "TypeError", all_data |-> all_data, warned |-> FALSE]
    ELSE LET l == SavantLoop(r.body.items, type, all_data)
         IN  [exc |-> l.exc, all_data |-> l.all_data, warned |-> FALSE]

\* fetch_prospect_savant_data() when the hitters request is answered by rh and
\* the pitchers request by rp; warnings lists the st.warning calls
fetch_prospect_savant_data(rh, rp) ==
    LET h == SavantBlock(rh, "Hitter", <<>>)
        p == SavantBlock(rp, "Pitcher", h.all_data)
        hw == IF h.warned THEN {"hitters"} ELSE {}
    IN  IF h.exc # "none"
        THEN [exc |-> h.exc, df |-> EmptyDataFrame, warnings |-> hw]
        ELSE IF p.exc # "none"
        THEN [exc |-> p.exc, df |-> EmptyDataFrame, warnings |-> hw]
        ELSE [exc |-> "none", df |-> DataFrame(p.all_data),
              warnings |-> hw \cup (IF p.warned THEN {"pitchers"} ELSE {})]

----------------------------------------------------------------------------
(* src/data/fangraphs_minors_stats.py: the season-stat clients *)

\* re.sub(r'<[^>]+>', '', name): position of the first '>' of t, 0 without one
RECURSIVE FirstGt(_, _)
FirstGt(t, i) == IF i > Len(t) THEN 0
                 ELSE IF t[i] = ">" THEN i ELSE FirstGt(t, i + 1)

\* RemoveTags that stops after the first tag
RECURSIVE RemoveFirstTag(_)
RemoveFirstTag(t) ==
    IF t = <<>> THEN <<>>
    ELSE IF Head(t) = "<" /\ FirstGt(t, 2) > 2
         THEN SubSeq(t, FirstGt(t, 2) + 1, Len(t))
    ELSE <<Head(t)>> \o RemoveFirstTag(Tail(t))

RECURSIVE RemoveTags(_)
RemoveTags(t) ==
    IF t = <<>> THEN <<>>
    ELSE IF Head(t) = "<" /\ FirstGt(t, 2) > 2
         THEN RemoveTags(SubSeq(t, FirstGt(t, 2) + 1, Len(t)))
    ELSE <<Head(t)>> \o RemoveTags(Tail(t))

clean_player_name(name) ==
    IF ~Truthy(name) \/ name.k # "str" THEN Str(<<>>)
    ELSE Str(Strip(RemoveTags(name.s)))

\* pd.DataFrame(data) for a JSON list: objects give their keys as columns,
\* other elements a single column 0
FrameOfItems(items) ==
    IF \A i \in 1..Len(items) : items[i].isobj
    THEN DataFrame([i \in 1..Len(items) |-> items[i].fields])
    ELSE DataFrame([i \in 1..Len(items) |-> ("0" :> Null)])

\* Lines 81-87: the frame of the payload, or the reason there is none
MinorsFrame(body) ==
    CASE body.t = "list" -> [exc |-> "none", df |-> FrameOfItems(body.items)]
      [] body.t = "dict" /\ SeqContains(body.keys, "data") ->
           (CASE body.dataT = "list" -> [exc |-> "none", df |-> FrameOfItems(body.items)]
              [] body.dataT = "null" -> [exc |-> "none", df |-> EmptyDataFrame]
              [] OTHER               -> [exc |-> "ValueError", df |-> EmptyDataFrame])
      [] OTHER -> [exc |-> "unexpected", df |-> EmptyDataFrame]

\* Lines 89-91
CleanNames(d) ==
    IF "PlayerName" \in d.cols
    THEN [d EXCEPT !.rows = [i \in 1..Len(d.rows) |->
             [d.rows[i] EXCEPT !["PlayerName"] = clean_player_name(@)]]]
    ELSE d

\* Lines 93-95: df[df[col] >= minimum]; comparing a text with a number raises
MinFilter(d, col, minimum) ==
    IF minimum > 0 /\ col \in d.cols
    THEN IF \E i \in 1..Len(d.rows) : d.rows[i][col].k = "str"
         THEN [exc |-> "TypeError", df |-> d]
         ELSE [exc |-> "none",
               df |-> [d EXCEPT !.rows = SelectRows(d.rows,
                         [i \in 1..Len(d.rows) |->
                            d.rows[i][col].k = "num" /\ d.rows[i][col].n >= minimum])]]
    ELSE [exc |-> "none", df |-> d]

\* The body shared by fetch_minors_batting_stats (col 'PA') and
\* fetch_minors_pitching_stats (col 'IP'): every exception is caught
MinorsStats(r, col, minimum) ==
    IF IsRequestException(r)
    THEN [exc |-> "none", df |-> EmptyDataFrame, warnings |-> {"failed"}]
    ELSE IF MinorsFrame(r.body).exc = "unexpected"
    THEN [exc |-> "none", df |-> EmptyDataFrame, warnings |-> {"unexpected"}]
    ELSE IF MinorsFrame(r.body).exc # "none"
    THEN [exc |-> "none", df |-> EmptyDataFrame, warnings |-> {"error"}]
    ELSE LET f == MinFilter(CleanNames(MinorsFrame(r.body).df), col, minimum)
         IN  IF f.exc # "none"
             THEN [exc |-> "none", df |-> EmptyDataFrame, warnings |-> {"error"}]
             ELSE [exc |-> "none", df |-> f.df, warnings |-> {}]

fetch_minors_batting_stats(r, min_pa) == MinorsStats(r, "PA", min_pa)

fetch_minors_pitching_stats(r, min_ip) == MinorsStats(r, "IP", min_ip)

----------------------------------------------------------------------------
(* src/data/fangraphs_minors_stats.py: get_all_minors_stats *)

\* Lines 284 and 294: the levels asked one by one
MinorsLevels == << <<"A", "A", "A">>, <<"A", "A">>, <<"A", "+">>, <<"A">> >>

\* pd.concat(frames, ignore_index=True): the rows of the frames in order,
\* over the union of their columns, a column a frame lacks being missing
RECURSIVE Concat(_)
Concat(frames) ==
    IF frames = <<>> THEN EmptyDataFrame
    ELSE LET rest == Concat(Tail(frames))
             cols == Head(frames).cols \cup rest.cols
             Wide(row, d) == [c \in cols |-> IF c \in d.cols THEN row[c] ELSE Null]
         IN  [cols |-> cols,
              rows |-> [i \in 1..Len(Head(frames).rows) |->
                          Wide(Head(frames).rows[i], Head(frames))]
                       \o [i \in 1..Len(rest.rows) |-> Wide(rest.rows[i], rest)]]

\* Lines 283-287: the tables of the levels that are not empty, in order;
\* answers[i] is the answer to the request of level i, tables the list so far
RECURSIVE LevelFrames(_, _, _, _)
LevelFrames(answers, col, i, tables) ==
    IF i > Len(MinorsLevels) THEN tables
    ELSE LevelFrames(answers, col, i + 1,
                     IF IsEmpty(MinorsStats(answers[i], col, 0).df) THEN tables
                     ELSE Append(tables, MinorsStats(answers[i], col, 0).df))

\* Lines 281-290 (batting) and 292-300 (pitching): one stat type, decide
\* being the table whose emptiness starts the requests by level and all_df
\* the table of the all-levels request. calls lists the levels asked.
StatsByLevel(decide, all_df, answers, col) ==
    IF IsEmpty(decide)
    THEN [df |-> IF LevelFrames(answers, col, 1, <<>>) # <<>>
                 THEN Concat(LevelFrames(answers, col, 1, <<>>))
                 ELSE all_df,
          calls |-> MinorsLevels]
    ELSE [df |-> all_df, calls |-> <<>>]

\* get_all_minors_stats in which the pitching requests by level depend on
\* the batting table
get_all_minors_stats_shared(rb, rp) ==
    LET batting_df == fetch_minors_batting_stats(rb[0], 0).df
        pitching_df == fetch_minors_pitching_stats(rp[0], 0).df
        b == StatsByLevel(batting_df, batting_df, rb, "PA")
        p == StatsByLevel(batting_df, pitching_df, rp, "IP")
    IN  [exc |-> "none", batting_df |-> b.df, pitching_df |-> p.df,
         batting_calls |-> b.calls, pitching_calls |-> p.calls]

\* get_all_minors_stats() when the all-levels requests are answered by rb[0]
\* and rp[0] and the requests of level i by rb[i] and rp[i]
get_all_minors_stats(rb, rp) ==
    LET batting_df == fetch_minors_batting_stats(rb[0], 0).df
        pitching_df == fetch_minors_pitching_stats(rp[0], 0).df
        b == StatsByLevel(batting_df, batting_df, rb, "PA")
        p == StatsByLevel(pitching_df, pitching_df, rp, "IP")
    IN  [exc |-> "none", batting_df |-> b.df, pitching_df |-> p.df,
         batting_calls |-> b.calls, pitching_calls |-> p.calls]

----------------------------------------------------------------------------
(* The parts of the state a specification does not use stay as they are here *)

NoCycle ==
    /\ pc = "idle"
    /\ resp = [t \in TeamIds |-> Failed("timeout")]
    /\ task = [t \in TeamIds |-> "new"]
    /\ future = [t \in TeamIds |-> NoFuture]
    /\ all_players = <<>>
    /\ completed = 0
    /\ log = {}
    /\ requests = [t \in TeamIds |-> 0]
    /\ df = EmptyDataFrame

NoCache ==
    /\ now = 0
    /\ cache = [valid |-> FALSE]
    /\ session = [shown |-> FALSE]

Pending == [fn |-> "pending"]

----------------------------------------------------------------------------
(* SpecCache: render() of the player-data page over st.cache_data.         *)
(* A fetch cycle is one step here: the answers of the organizations and    *)
(* the order in which their futures are collected are chosen, and the      *)
(* table is computed by the operators of the cycle above.                  *)

\* Bounds of the clock (in steps of half a cache window) and of the number
\* of cycles run
MaxTicks == 3
MaxCycles == 2

TickSeconds == CACHE_TTL \div 2

\* What the roster endpoint may answer to one organization, cycle by cycle
CacheResponses == { Failed("timeout"), Json(JList(<<P_AB>>)) }

\* The orders in which the futures of a cycle can be collected
CollectionOrders ==
    {o \in [1..NumTeams -> TeamIds] : \A i, j \in 1..NumTeams : o[i] = o[j] => i = j}

\* The collection loop run over every future, in the order o
RECURSIVE CollectAll(_, _, _)
CollectAll(rs, o, i) ==
    IF i = 0 THEN [all_players |-> <<>>, completed |-> 0, log |-> {}]
    ELSE LET before == CollectAll(rs, o, i - 1)
             fut == fetch_team_data(team_abbr(o[i]), rs[o[i]])
         IN  CollectResult(fut, team_abbr(o[i]),
                           before.all_players, before.completed,
                           IF fut.warned THEN before.log \cup {Warning(team_abbr(o[i]))}
                           ELSE before.log)

\* fetch_rule5_players() for every choice of answers and collection order:
\* the answers, the table returned and the warnings and errors reported
CycleOutcomes ==
    {[resp |-> rs,
      df |-> ResultFrame(CollectAll(rs, o, NumTeams).all_players),
      log |-> CollectAll(rs, o, NumTeams).log] :
        rs \in [TeamIds -> CacheResponses], o \in CollectionOrders}

\* CacheFresh with the comparison against the ttl inverted
CacheFreshInverted == cache.valid /\ now - cache.stored_at >= CACHE_TTL

\* st.cache_data(ttl=CACHE_TTL): the entry is served while it is younger
\* than the ttl, counted from the moment it was stored
CacheFresh == cache.valid /\ now - cache.stored_at < CACHE_TTL

InitCache ==
    /\ NoCycle /\ NoCache
    /\ args = [fn |-> "none"]
    /\ ret = [fn |-> "none"]

Tick ==
    /\ now < MaxTicks * TickSeconds
    /\ now' = now + TickSeconds
    /\ UNCHANGED <<cache, session, cycleVars, pureVars>>

\* RenderCached that stores the time of the render as the last fetch time
RenderCachedStamp ==
    /\ CacheFresh
    /\ df' = cache.value.df
    /\ session' = [shown |-> TRUE, last_fetch_time |-> now, from_cache |-> TRUE]
    /\ UNCHANGED <<pc, resp, task, future, all_players, completed, log, requests>>
    /\ UNCHANGED <<now, cache, pureVars>>

\* render(), lines 35-37, the cached entry being served
RenderCached ==
    /\ CacheFresh
    /\ df' = cache.value.df
    /\ session' = [shown |-> TRUE, last_fetch_time |-> cache.value.fetch_time,
                   from_cache |-> TRUE]
    /\ UNCHANGED <<pc, resp, task, future, all_players, completed, log, requests>>
    /\ UNCHANGED <<now, cache, pureVars>>

\* render(), lines 35-37, fetch_rule5_players running a cycle
RenderFetch ==
    /\ ~CacheFresh
    /\ requests[1] < MaxCycles
    /\ \E c \in CycleOutcomes :
          /\ resp' = c.resp
          /\ cache' = [valid |-> TRUE, stored_at |-> now,
                       value |-> [df |-> c.df, fetch_time |-> now]]
          /\ df' = c.df
          /\ log' = c.log
    /\ requests' = [t \in TeamIds |-> requests[t] + 1]
    /\ session' = [shown |-> TRUE, last_fetch_time |-> now, from_cache |-> FALSE]
    /\ UNCHANGED <<pc, task, future, all_players, completed>>
    /\ UNCHANGED <<now, pureVars>>

Render == RenderCached \/ RenderFetch

\* render(), lines 30-32: the 'Fetch Latest Eligibility' button
ClickFetchLatest ==
    /\ session.shown
    /\ cache' = [valid |-> FALSE]
    /\ UNCHANGED <<now, session, cycleVars, pureVars>>

NextCache == Tick \/ RenderCached \/ RenderFetch \/ ClickFetchLatest

SpecCache == InitCache /\ [][NextCache]_vars

----------------------------------------------------------------------------
(* SpecClient: one call of a source client per HTTP outcome *)

T_TagJS == <<"<", "a", ">">> \o T_JS \o <<"<", "/", "a", ">">>
T_AA_AAA == <<"A", "A", ",", "A", "A", "A">>

\* Advanced-metrics records of the provider
S_Hit == Obj([name |-> Str(T_js_), age |-> Num(Hundredths(27, 0)),
              Position |-> Str(T_SS2B), score_p |-> Num(82),
              xba |-> Num(25), pa |-> Num(Hundredths(120, 0))])
S_Pit == Obj([name |-> Str(T_AB), age |-> Num(Hundredths(24, 0)),
              score_p |-> Num(0), max_velo |-> Num(Hundredths(97, 0)),
              ip |-> Num(Hundredths(20, 0))])
S_NoScore == Obj([name |-> Str(T_SS), Position |-> Null, pa |-> Num(Hundredths(10, 0))])

\* A record with the highest score, 1
S_Top == Obj([name |-> Str(T_AB), score_p |-> Num(100)])

\* Season-stat records of the provider
M_Bat == Obj([PlayerName |-> Str(T_TagJS), aLevel |-> Str(T_AA_AAA),
              PA |-> Num(Hundredths(300, 0))])
M_Pit == Obj([PlayerName |-> Str(T_AB), aLevel |-> Str(T_AA),
              IP |-> Num(Hundredths(12, 0))])

ClientBodies ==
    { JList(<<>>), JList(<<P_JS, P_Not, P_AB>>), JList(<<M_Bat, M_Pit>>),
      JList(<<NotObj>>), JList(<<P_JS, NotObj>>), JList(<<P_BadPos>>),
      JDict(<<>>), JDict(<<"error">>),
      JData("list", <<S_Hit, S_Pit, S_NoScore>>), JData("list", <<M_Bat>>),
      JData("list", <<>>), JData("list", <<NotObj>>), JData("list", <<S_Top>>),
      JData("null", <<>>), JData("num", <<>>),
      JNull, JNumber }

ClientResponses ==
    {Failed(k) : k \in RequestFailures} \cup {Json(b) : b \in ClientBodies}

AllObjects(items) == \A i \in 1..Len(items) : items[i].isobj

\* pd.DataFrame of a list that mixes objects with other elements is left out
MinorsResponses ==
    {r \in ClientResponses :
        r.body.t = "list" =>
            AllObjects(r.body.items) \/ \A i \in 1..Len(r.body.items) : ~r.body.items[i].isobj}

\* A season-stat record of one level
LevelRecord(i) == Obj([PlayerName |-> Str(T_AB), aLevel |-> Str(MinorsLevels[i])])

\* The answers to the season-stat requests of one stat type: index 0 is the
\* all-levels request, which fails or gives no record or one record; the
\* request of a level gives a record of the level or fails
LevelAnswers ==
    {[i \in 0..Len(MinorsLevels) |->
        IF i = 0 THEN a ELSE IF i \in answered THEN Json(JList(<<LevelRecord(i)>>))
        ELSE Failed("timeout")] :
        a \in {Failed("timeout"), Json(JList(<<>>)), Json(JList(<<M_Bat>>))},
        answered \in SUBSET (1..Len(MinorsLevels))}

ClientCalls ==
    {[fn |-> "fetch_team_data", teamid |-> t, r |-> <<r>>, minimum |-> 0] :
        t \in TeamIds, r \in ClientResponses}
    \cup {[fn |-> "fetch_prospect_savant_data", teamid |-> 0, r |-> <<rh, rp>>, minimum |-> 0] :
        rh \in ClientResponses, rp \in ClientResponses}
    \cup {[fn |-> f, teamid |-> 0, r |-> <<r>>, minimum |-> m] :
        f \in {"fetch_minors_batting_stats", "fetch_minors_pitching_stats"},
        r \in MinorsResponses, m \in {0, Hundredths(50, 0)}}

InitClient ==
    /\ NoCycle /\ NoCache
    /\ args \in ClientCalls
    /\ ret = Pending

CallTeamData ==
    /\ ret = Pending /\ args.fn = "fetch_team_data"
    /\ ret' = LET x == fetch_team_data(team_abbr(args.teamid), args.r[1])
              IN  [exc |-> x.exc, df |-> DataFrame(x.players),
                   warnings |-> IF x.warned THEN {"failed"} ELSE {}]
    /\ UNCHANGED <<args, cycleVars, cacheVars>>

CallSavant ==
    /\ ret = Pending /\ args.fn = "fetch_prospect_savant_data"
    /\ ret' = fetch_prospect_savant_data(args.r[1], args.r[2])
    /\ UNCHANGED <<args, cycleVars, cacheVars>>

CallBatting ==
    /\ ret = Pending /\ args.fn = "fetch_minors_batting_stats"
    /\ ret' = fetch_minors_batting_stats(args.r[1], args.minimum)
    /\ UNCHANGED <<args, cycleVars, cacheVars>>

CallPitching ==
    /\ ret = Pending /\ args.fn = "fetch_minors_pitching_stats"
    /\ ret' = fetch_minors_pitching_stats(args.r[1], args.minimum)
    /\ UNCHANGED <<args, cycleVars, cacheVars>>

NextClient == CallTeamData \/ CallSavant \/ CallBatting \/ CallPitching

SpecClient == InitClient /\ [][NextClient]_vars

----------------------------------------------------------------------------
(* Claims about one fetch cycle (Spec, FairSpec) *)

\* The organization's task failed: its request failed inside fetch_team_data,
\* or an exception left the task
RequestFailed(t) == IsRequestException(resp[t])
TaskRaised(t)    == future[t].exc # "none"

RowsOf(rows, t) ==
    SelectRows(rows, [i \in 1..Len(rows) |-> rows[i]["Current Org"] = team_abbr(t)])

\* C1: when the cycle has returned, the rows of the table that belong to an
\* organization are exactly the rows its task returned if the task succeeded
\* and none if it failed, whatever the other tasks did; a failed request is
\* named in a warning and a raised task in an error.
C1_PartialFailure ==
    pc = "done" =>
        \A t \in TeamIds :
            /\ (RequestFailed(t) \/ TaskRaised(t)) => RowsOf(df.rows, t) = <<>>
            /\ RequestFailed(t) => Warning(team_abbr(t)) \in log
            /\ TaskRaised(t) => Error(team_abbr(t)) \in log
            /\ ~(RequestFailed(t) \/ TaskRaised(t))
                  => RowsOf(df.rows, t) = future[t].players

\* C1 witness: a returned cycle with a failed request, a raised task and an
\* organization whose rows are in the table
C1_Witness ==
    /\ pc = "done"
    /\ \E t \in TeamIds : RequestFailed(t)
    /\ \E t \in TeamIds : TaskRaised(t)
    /\ \E t \in TeamIds : ~RequestFailed(t) /\ ~TaskRaised(t) /\ RowsOf(df.rows, t) # <<>>

\* The rows the answers resp give, as a multiset: a function of the answers
\* alone, not of the order in which the tasks complete
RECURSIVE SuccessfulRows(_)
SuccessfulRows(n) ==
    IF n = 0 THEN EmptyBag
    ELSE SuccessfulRows(n - 1) (+)
         (IF fetch_team_data(team_abbr(n), resp[n]).exc = "none"
          THEN BagOf(fetch_team_data(team_abbr(n), resp[n]).players)
          ELSE EmptyBag)

\* C4: the returned table is, as a multiset of rows, the union of the row
\* lists of the tasks that succeeded, the same for every completion order.
C4_MultisetUnion ==
    pc = "done" => BagOf(df.rows) = SuccessfulRows(NumTeams)

\* C4 witness: a returned table that holds rows of two organizations, the one
\* with the higher team id first (collected out of submission order)
C4_Witness ==
    /\ pc = "done"
    /\ Len(df.rows) >= 2
    /\ \E i, j \in 1..Len(df.rows), t, u \in TeamIds :
          /\ i < j /\ u < t
          /\ df.rows[i]["Current Org"] = team_abbr(t)
          /\ df.rows[j]["Current Org"] = team_abbr(u)

\* C5: every cycle returns, with every organization's future collected,
\* whatever the tasks' outcomes.
C5_CycleReturns == <>(pc = "done" /\ \A t \in TeamIds : task[t] = "collected")

\* C5 witness: a cycle that returned although every task failed, one of them
\* by raising
C5_Witness ==
    /\ pc = "done"
    /\ \A t \in TeamIds : RequestFailed(t) \/ TaskRaised(t)
    /\ \E t \in TeamIds : TaskRaised(t)
----------------------------------------------------------------------------
(* Claims about the source clients (SpecClient) *)

RequestFails(r) == r.kind \in RequestFailures

\* The payload the advanced-metrics client is written for: an object whose
\* 'data' is a list of objects with a text (or no) position
SavantExpected(r) ==
    /\ r.kind = "json" /\ r.body.t = "dict" /\ r.body.dataT = "list"
    /\ \A i \in 1..Len(r.body.items) :
          /\ r.body.items[i].isobj
          /\ Get(r.body.items[i], "Position").k \in {"null", "str"}

RowsOfType(d, type) ==
    SelectRows(d.rows, [i \in 1..Len(d.rows) |-> d.rows[i]["Player Type"] = Str(<<type>>)])

\* C2: a client whose HTTP call fails (connection error, timeout, HTTP error
\* status, body that is not JSON) returns without raising, the failed request
\* contributes no rows and a warning is emitted for it.
C2_RequestFailureContained ==
    ret # Pending =>
        IF args.fn = "fetch_prospect_savant_data"
        THEN (\A i \in 1..2 : RequestFails(args.r[i]) \/ SavantExpected(args.r[i])) =>
               /\ ret.exc = "none"
               /\ RequestFails(args.r[1]) =>
                     "hitters" \in ret.warnings /\ RowsOfType(ret.df, "Hitter") = <<>>
               /\ RequestFails(args.r[2]) =>
                     "pitchers" \in ret.warnings /\ RowsOfType(ret.df, "Pitcher") = <<>>
        ELSE RequestFails(args.r[1]) =>
               ret.exc = "none" /\ ret.df.rows = <<>> /\ ret.warnings # {}

\* C2 witness: the advanced-metrics client returned the pitchers' rows and a
\* warning after its hitters request got a body that is not JSON
C2_Witness ==
    /\ ret # Pending
    /\ args.fn = "fetch_prospect_savant_data"
    /\ args.r[1].kind = "bad_json"
    /\ ret.exc = "none"
    /\ RowsOfType(ret.df, "Pitcher") # <<>>
    /\ ret.warnings = {"hitters"}

\* A JSON body of a shape the client is not written for
ScalarBody(r)   == r.kind = "json" /\ r.body.t \in {"null", "num"}
ObjectBody(r)   == r.kind = "json" /\ r.body.t = "dict"
ListBody(r)     == r.kind = "json" /\ r.body.t = "list"
ListOfOthers(r) == ListBody(r) /\ ~AllObjects(r.body.items)
DataOfOthers(r) == ObjectBody(r) /\ r.body.dataT = "list" /\ ~AllObjects(r.body.items)

UnexpectedShape(fn, r) ==
    CASE fn = "fetch_team_data" -> ObjectBody(r) \/ ScalarBody(r) \/ ListOfOthers(r)
      [] fn = "fetch_prospect_savant_data" -> ListBody(r) \/ ScalarBody(r) \/ DataOfOthers(r)
      [] OTHER -> ScalarBody(r) \/ ListOfOthers(r) \/ DataOfOthers(r)

\* C3: a client that gets valid JSON of an unexpected shape returns an empty
\* result with a warning and raises nothing.
C3_ShapeMismatchContained ==
    (ret # Pending /\ \A i \in 1..Len(args.r) : UnexpectedShape(args.fn, args.r[i]))
        => ret.exc = "none" /\ ret.df.rows = <<>> /\ ret.warnings # {}
----------------------------------------------------------------------------
(* Claims about the cache (SpecCache) *)

\* C6: a render within CACHE_TTL seconds of a stored cycle gets that cycle's
\* table and fetch time and issues no request, also when the table is partial;
\* the 'Fetch Latest Eligibility' click empties the cache, the cache stays
\* empty until the next render, and that render issues one request for every
\* organization.
C6_CacheWindow ==
    [][ /\ (cache.valid /\ now - cache.stored_at < CACHE_TTL /\ Render) =>
              /\ df' = cache.value.df
              /\ session'.last_fetch_time = cache.value.fetch_time
              /\ requests' = requests
              /\ cache' = cache
        /\ ClickFetchLatest => ~cache'.valid
        /\ ~cache.valid =>
              IF Render THEN \A t \in TeamIds : requests'[t] = requests[t] + 1
              ELSE ~cache'.valid
      ]_vars

\* C6 witness: two cycles ran at time 0 (the second after a click), the second
\* with a failed and a successful organization, and half a window later the
\* page was rendered from the cache
C6_Witness ==
    /\ session.shown /\ session.from_cache
    /\ cache.valid /\ cache.stored_at = 0 /\ now = TickSeconds
    /\ requests[1] = 2
    /\ df = cache.value.df /\ df.rows # <<>>
    /\ \E t \in TeamIds : resp[t].kind = "timeout"
----------------------------------------------------------------------------
(* pandas: the string accessor, merge, drop *)

\* Series.str.strip().str.lower(): a text is trimmed and lower-cased, any
\* other element of an object column gives a missing value
NormNameNoLower(v) == IF v.k = "str" THEN Str(Strip(v.s)) ELSE Null

NormName(v) == IF v.k = "str" THEN Str(Lower(Strip(v.s))) ELSE Null

\* df[name_norm] = df[col].str.strip().str.lower()
WithNameNorm(d, col) ==
    [cols |-> d.cols \cup {"name_norm"},
     rows |-> [i \in 1..Len(d.rows) |->
                 [c \in d.cols \cup {"name_norm"} |->
                    IF c = "name_norm" THEN NormName(d.rows[i][col])
                    ELSE d.rows[i][c]]]]

\* The columns both sides of a merge have, the key aside
Overlap(left, right, key) == (left.cols \cap right.cols) \ {key}

\* The name a column of the right side gets in the merged table
RightName(c, left, right, key, suffix) ==
    IF c \in Overlap(left, right, key) THEN c \o suffix ELSE c

MergedCols(left, right, key, suffix) ==
    left.cols \cup {RightName(c, left, right, key, suffix) : c \in right.cols}

\* MergedRow in which a value of the right side takes the place of the left
\* value of the same name
MergedRowOverwrite(l, r, left, right, key, suffix) ==
    [c \in MergedCols(left, right, key, suffix) |->
       IF c \in right.cols /\ c # key THEN r[c]
       ELSE IF c \in left.cols THEN l[c]
       ELSE r[CHOOSE o \in right.cols : RightName(o, left, right, key, suffix) = c]]

\* One merged row: the left values under their own names (suffix ''), the
\* right values under theirs, suffixed where the left has the name too
MergedRow(l, r, left, right, key, suffix) ==
    [c \in MergedCols(left, right, key, suffix) |->
       IF c \in left.cols THEN l[c]
       ELSE r[CHOOSE o \in right.cols : RightName(o, left, right, key, suffix) = c]]

\* The rows of the right side that one left row joins, in the right's order;
\* missing keys match missing keys
RECURSIVE MergeOne(_, _, _, _, _, _)
MergeOne(l, rrows, left, right, key, suffix) ==
    IF rrows = <<>> THEN <<>>
    ELSE (IF l[key] = Head(rrows)[key]
          THEN <<MergedRow(l, Head(rrows), left, right, key, suffix)>> ELSE <<>>)
         \o MergeOne(l, Tail(rrows), left, right, key, suffix)

RECURSIVE MergeRows(_, _, _, _, _)
MergeRows(lrows, left, right, key, suffix) ==
    IF lrows = <<>> THEN <<>>
    ELSE MergeOne(Head(lrows), right.rows, left, right, key, suffix)
         \o MergeRows(Tail(lrows), left, right, key, suffix)

\* left.merge(right, on=key, how="inner", suffixes=("", suffix))
Merge(left, right, key, suffix) ==
    [cols |-> MergedCols(left, right, key, suffix),
     rows |-> MergeRows(left.rows, left, right, key, suffix)]

\* df.drop(columns=names, errors="ignore")
Drop(d, names) ==
    [cols |-> d.cols \ names,
     rows |-> [i \in 1..Len(d.rows) |-> [c \in d.cols \ names |-> d.rows[i][c]]]]

----------------------------------------------------------------------------
(* src/data/data_processing.py: merge_rule5_with_savant *)

\* Line 8: rule5_df[rule5_df["Level"] == "AAA"].copy()
AAARows(rule5_df) ==
    [rule5_df EXCEPT !.rows = SelectRows(rule5_df.rows,
        [i \in 1..Len(rule5_df.rows) |-> rule5_df.rows[i]["Level"] = Str(T_AAA)])]

\* exc is the exception that leaves the function, df the table it returns,
\* savant_df the caller's advanced-metrics table after the call
merge_rule5_with_savant(rule5_df, savant_df) ==
    IF "Level" \notin rule5_df.cols
    THEN [exc |-> "KeyError", df |-> EmptyDataFrame, savant_df |-> savant_df]
    ELSE IF IsEmpty(AAARows(rule5_df)) \/ IsEmpty(savant_df)
    THEN [exc |-> "none", df |-> EmptyDataFrame, savant_df |-> savant_df]
    ELSE IF "Player" \notin rule5_df.cols \/ "Player" \notin savant_df.cols
    THEN [exc |-> "KeyError", df |-> EmptyDataFrame, savant_df |-> savant_df]
    ELSE [exc |-> "none",
          df |-> Drop(Merge(WithNameNorm(AAARows(rule5_df), "Player"),
                            WithNameNorm(savant_df, "Player"),
                            "name_norm", "_savant"),
                      {"name_norm", "Age_savant", "Position_savant"}),
          savant_df |-> WithNameNorm(savant_df, "Player")]
----------------------------------------------------------------------------
(* src/data/fangraphs_minors_stats.py: get_highest_level and the merge *)

\* str.split(sep): every piece, in order
RECURSIVE Split(_, _)
Split(t, sep) ==
    IF ~SeqContains(t, sep) THEN <<t>>
    ELSE <<SplitFirst(t, sep)>>
         \o Split(SubSeq(t, Len(SplitFirst(t, sep)) + 2, Len(t)), sep)

\* Line 247
level_order == << T_AAA, T_AA, <<"A", "+">>, <<"A">>, <<"R", "k">>, <<"F", "R", "k">> >>

\* FirstLevelIn that returns the first of levels found in order instead
RECURSIVE FirstLevelInLevels(_, _)
FirstLevelInLevels(order, levels) ==
    IF levels = <<>> THEN <<>>
    ELSE IF SeqContains(order, Head(levels)) THEN Head(levels)
    ELSE FirstLevelInLevels(order, Tail(levels))

\* Lines 253-255: the first level of level_order found among levels
RECURSIVE FirstLevelIn(_, _)
FirstLevelIn(order, levels) ==
    IF order = <<>> THEN <<>>
    ELSE IF SeqContains(levels, Head(order)) THEN Head(order)
    ELSE FirstLevelIn(Tail(order), levels)

get_highest_level(level_str) ==
    IF ~Truthy(level_str) \/ level_str.k # "str" THEN level_str
    ELSE LET pieces == Split(level_str.s, ",")
             levels == [i \in 1..Len(pieces) |-> Strip(pieces[i])]
         IN  IF FirstLevelIn(level_order, levels) # <<>>
             THEN Str(FirstLevelIn(level_order, levels))
             ELSE level_str

\* Lines 205-207: hitters_merged['aLevel'].apply(get_highest_level)
HighestLevels(d) ==
    IF "aLevel" \in d.cols
    THEN [d EXCEPT !.rows = [i \in 1..Len(d.rows) |->
             [d.rows[i] EXCEPT !["aLevel"] = get_highest_level(@)]]]
    ELSE d

\* Lines 191-207 (hitters) and 211-227 (pitchers): one side of the merge,
\* rule5_df being the normalized copy of the eligibility table
MergeStats(rule5_df, stats_df) ==
    IF ~IsEmpty(stats_df) /\ "PlayerName" \in stats_df.cols
    THEN HighestLevels(Drop(Merge(rule5_df, WithNameNorm(stats_df, "PlayerName"),
                                  "name_norm", "_fg"),
                            {"name_norm"}))
    ELSE EmptyDataFrame

merge_rule5_with_minors_stats(rule5_df, batting_df, pitching_df) ==
    IF IsEmpty(rule5_df)
    THEN [exc |-> "none", hitters_merged |-> EmptyDataFrame,
          pitchers_merged |-> EmptyDataFrame]
    ELSE IF "Player" \notin rule5_df.cols
    THEN [exc |-> "KeyError", hitters_merged |-> EmptyDataFrame,
          pitchers_merged |-> EmptyDataFrame]
    ELSE [exc |-> "none",
          hitters_merged |-> MergeStats(WithNameNorm(rule5_df, "Player"), batting_df),
          pitchers_merged |-> MergeStats(WithNameNorm(rule5_df, "Player"), pitching_df)]

----------------------------------------------------------------------------
(* src/data/data_processing.py: apply_filters *)

\* The model's search texts use '.', '*', '(' and '[' of the regular
\* expression syntax; they hold no ')' , ']' or backslash, and '*' only as
\* the first character. re.compile raises re.error on an unterminated group
\* or set and on a leading '*' (nothing to repeat).
RegexError(pat) ==
    \/ SeqContains(pat, "(") \/ SeqContains(pat, "[")
    \/ (pat # <<>> /\ Head(pat) = "*")

\* One pattern character against one character, case ignored; '.' is any
CharMatches(p, c) == p = "." \/ LowerChar(p) = LowerChar(c)

\* re.search(pat, t, re.IGNORECASE) for a pattern that compiles
Search(pat, t) ==
    \E i \in 1..(Len(t) - Len(pat) + 1) :
        \A j \in 1..Len(pat) : CharMatches(pat[j], t[i + j - 1])

\* Series.str.contains(search, case=False, na=False) for one element
StrContains(v, search) == v.k = "str" /\ Search(search, v.s)

\* Series.isin(values) for one element
Isin(v, values) == SeqContains(values, v)

\* Series.between(lo, hi) with both ends excluded
BetweenExclusive(v, lo, hi) == v.k = "num" /\ lo < v.n /\ v.n < hi

\* Series.between(lo, hi) for one element: both ends included, missing is False
Between(v, lo, hi) == v.k = "num" /\ lo <= v.n /\ v.n <= hi

\* One filtering step on x = [exc, df]: nothing once an exception is raised,
\* KeyError if the column is not there, else the rows the mask keeps
FilterStep(x, col, mask) ==
    IF x.exc # "none" THEN x
    ELSE IF col \notin x.df.cols THEN [exc |-> "KeyError", df |-> x.df]
    ELSE [exc |-> "none", df |-> [x.df EXCEPT !.rows = SelectRows(x.df.rows, mask)]]

\* Lines 28-29
SearchStep(x, search) ==
    IF ~Truthy(search) \/ x.exc # "none" THEN x
    ELSE IF "Player" \notin x.df.cols THEN [exc |-> "KeyError", df |-> x.df]
    ELSE IF RegexError(search.s) THEN [exc |-> "re.error", df |-> x.df]
    ELSE FilterStep(x, "Player",
            [i \in 1..Len(x.df.rows) |-> StrContains(x.df.rows[i]["Player"], search.s)])

\* Lines 31-38
IsinStep(x, col, values) ==
    IF ~Truthy(values) \/ x.exc # "none" THEN x
    ELSE IF col \notin x.df.cols THEN [exc |-> "KeyError", df |-> x.df]
    ELSE FilterStep(x, col,
            [i \in 1..Len(x.df.rows) |-> Isin(x.df.rows[i][col], values.s)])

\* Lines 40-41
AgeStep(x, age_range) ==
    IF ~Truthy(age_range) \/ x.exc # "none" THEN x
    ELSE IF "Age" \notin x.df.cols THEN [exc |-> "KeyError", df |-> x.df]
    ELSE FilterStep(x, "Age",
            [i \in 1..Len(x.df.rows) |->
               Between(x.df.rows[i]["Age"], age_range.s[1], age_range.s[2])])

\* apply_filters that treats a missing age_range as the range (0, 0)
apply_filters_default_age(d, search, teams, positions, levels, age_range) ==
    LET x == AgeStep(
               IsinStep(
                 IsinStep(
                   IsinStep(SearchStep([exc |-> "none", df |-> d], search),
                            "Current Org", teams),
                   "Position", positions),
                 "Level", levels),
               IF IsNull(age_range) THEN Tuple(0, 0) ELSE age_range)
    IN  [exc |-> x.exc, df |-> x.df, caller_df |-> d]

\* exc is the exception that leaves the function, df the table it returns
\* (line 26 copies the table and lines 29-41 rebind the copy), caller_df the
\* caller's table after the call
apply_filters(d, search, teams, positions, levels, age_range) ==
    LET x == AgeStep(
               IsinStep(
                 IsinStep(
                   IsinStep(SearchStep([exc |-> "none", df |-> d], search),
                            "Current Org", teams),
                   "Position", positions),
                 "Level", levels),
               age_range)
    IN  [exc |-> x.exc, df |-> x.df, caller_df |-> d]
----------------------------------------------------------------------------
(* src/pages/player_data.py: display_aaa_section *)

\* Lines 136-137: merged_df[merged_df["Player Type"] == type].copy()
PlayerTypeRows(d, type) ==
    [d EXCEPT !.rows = SelectRows(d.rows,
        [i \in 1..Len(d.rows) |-> d.rows[i]["Player Type"] = Str(<<type>>)])]

\* GeThreshold with the strict comparison
GtThreshold(v, minimum) == v.k = "num" /\ v.n > Hundredths(minimum, 0)

\* One element of series >= minimum: a missing value compares False
GeThreshold(v, minimum) == v.k = "num" /\ v.n >= Hundredths(minimum, 0)

\* Lines 140-143: d[d[col] >= minimum] unless d is empty
ThresholdRows(d, col, minimum) ==
    IF IsEmpty(d) THEN d
    ELSE [d EXCEPT !.rows = SelectRows(d.rows,
            [i \in 1..Len(d.rows) |-> GeThreshold(d.rows[i][col], minimum)])]

\* A text in the column makes the comparison with a number raise
ComparisonRaises(d, col) ==
    ~IsEmpty(d) /\ \E i \in 1..Len(d.rows) : d.rows[i][col].k = "str"

\* exc is the exception that leaves the function, hitters and pitchers the
\* tables given to display_aaa_hitters_table and display_aaa_pitchers_table
\* (empty: the table is not displayed), df the caller's eligibility table
\* after the call
display_aaa_section(d, savant_df) ==
    LET m == merge_rule5_with_savant(d, savant_df)
        hitters_aaa == PlayerTypeRows(m.df, "Hitter")
        pitchers_aaa == PlayerTypeRows(m.df, "Pitcher")
    IN  IF m.exc # "none"
        THEN [exc |-> m.exc, hitters |-> EmptyDataFrame,
              pitchers |-> EmptyDataFrame, df |-> d]
        ELSE IF IsEmpty(m.df)
        THEN [exc |-> "none", hitters |-> EmptyDataFrame,
              pitchers |-> EmptyDataFrame, df |-> d]
        ELSE IF ComparisonRaises(hitters_aaa, "PA")
                \/ ComparisonRaises(pitchers_aaa, "IP")
        THEN [exc |-> "TypeError", hitters |-> EmptyDataFrame,
              pitchers |-> EmptyDataFrame, df |-> d]
        ELSE [exc |-> "none",
              hitters |-> ThresholdRows(hitters_aaa, "PA", MIN_PA_THRESHOLD),
              pitchers |-> ThresholdRows(pitchers_aaa, "IP", MIN_IP_THRESHOLD),
              df |-> d]

----------------------------------------------------------------------------
(* SpecTable: one call of a merge or of apply_filters per input *)

MaxRows == 2

\* Every sequence over S of at most n elements
SeqsUpTo(S, n) == UNION {[1..k -> S] : k \in 0..n}

\* 'jon singleton ' at AAA with no age; a nameless player at AAA
P_js == Obj([player |-> Str(T_js_), position |-> Str(T_SS), mlevel |-> Str(T_AAA),
             options |-> Str(T_R5), Org_Rank_Next |-> Num(Hundredths(7, 0))])
P_NoName == Obj([age |-> Num(Hundredths(20, 0)), mlevel |-> Str(T_AAA),
                 options1 |-> Str(T_R5)])

\* An advanced-metrics record without a name
S_NoName == Obj([score_p |-> Num(50), ip |-> Num(Hundredths(30, 0))])

\* A season-stat record that has an Age of its own
M_Age == Obj([PlayerName |-> Str(T_AB), Age |-> Num(Hundredths(23, 0)),
              IP |-> Num(Hundredths(40, 0))])

\* Advanced-metrics records of 'jon singleton ' with a given PA or IP
A_Hit(pa) == Obj([name |-> Str(T_js_), score_p |-> Num(82), pa |-> pa])
A_Pit(ip) == Obj([name |-> Str(T_js_), score_p |-> Num(40), ip |-> ip])

\* Plate appearances and innings around the thresholds, and none
PAValues == {Null, Num(Hundredths(49, 0)), Num(Hundredths(50, 0)),
             Num(Hundredths(120, 0))}
IPValues == {Null, Num(Hundredths(19, 50)), Num(Hundredths(20, 0))}

\* The advanced-metrics tables of the AAA section
AAATables ==
    {DataFrame(rows) :
        rows \in SeqsUpTo({hitter_dict(A_Hit(v)) : v \in PAValues}
                          \cup {pitcher_dict(A_Pit(v)) : v \in IPValues}, MaxRows)}

\* The eligibility tables of the AAA section
AAAEligibility ==
    {ResultFrame(rows) :
        rows \in {<<player_dict(P_JS, team_abbr(1))>>,
                  <<player_dict(P_AB, team_abbr(1)), player_dict(P_js, team_abbr(2))>>}}

\* The rows fetch_team_data makes of the payloads, for two organizations
EligibilityRows ==
    { player_dict(P_JS, team_abbr(1)), player_dict(P_AB, team_abbr(1)),
      player_dict(P_js, team_abbr(2)), player_dict(P_NoName, team_abbr(2)) }

\* The tables fetch_rule5_players returns (column-less when there is no
\* row), and the table with the columns and no row that a filter leaves
EligibilityTables ==
    {ResultFrame(rows) : rows \in SeqsUpTo(EligibilityRows, MaxRows)}
    \cup {[cols |-> DOMAIN player_dict(P_JS, team_abbr(1)), rows |-> <<>>]}

\* The tables fetch_prospect_savant_data returns
SavantTables ==
    {DataFrame(rows) :
        rows \in SeqsUpTo({hitter_dict(S_Hit), pitcher_dict(S_Pit),
                           pitcher_dict(S_NoName)}, MaxRows)}

\* The tables the season-stat clients return
BattingTables ==
    {CleanNames(FrameOfItems(items)) : items \in SeqsUpTo({M_Bat, M_Pit}, MaxRows)}

PitchingTables ==
    {CleanNames(FrameOfItems(items)) : items \in {<<>>, <<M_Pit>>, <<NotObj>>, <<M_Age>>}}

Searches == {Null, Str(<<>>), Str(<<"s">>), Str(<<".">>), Str(<<"(">>)}
TeamFilters == {Null, List(<<>>), List(<<team_abbr(1)>>)}
PositionFilters == {Null, List(<<Str(T_SS)>>), List(<<Str(T_1B), Null>>)}
LevelFilters == {Null, List(<<Str(T_AAA)>>)}
AgeRanges == {Null, Tuple(Hundredths(22, 50), Hundredths(27, 0)),
              Tuple(Hundredths(23, 0), Hundredths(26, 0))}

TableCalls ==
    {[fn |-> "merge_rule5_with_savant", rule5_df |-> e, savant_df |-> s] :
        e \in EligibilityTables, s \in SavantTables}
    \cup {[fn |-> "merge_rule5_with_minors_stats", rule5_df |-> e,
           batting_df |-> b, pitching_df |-> p] :
        e \in EligibilityTables, b \in BattingTables, p \in PitchingTables}
    \cup {[fn |-> "apply_filters", df |-> e, search |-> s, teams |-> t,
           positions |-> p, levels |-> l, age_range |-> a] :
        e \in EligibilityTables, s \in Searches, t \in TeamFilters,
        p \in PositionFilters, l \in LevelFilters, a \in AgeRanges}
    \cup {[fn |-> "display_aaa_section", df |-> e, savant_df |-> s] :
        e \in AAAEligibility, s \in AAATables}

InitTable ==
    /\ NoCycle /\ NoCache
    /\ args \in TableCalls
    /\ ret = Pending

CallMergeSavant ==
    /\ ret = Pending /\ args.fn = "merge_rule5_with_savant"
    /\ ret' = merge_rule5_with_savant(args.rule5_df, args.savant_df)
    /\ UNCHANGED <<args, cycleVars, cacheVars>>

CallMergeMinors ==
    /\ ret = Pending /\ args.fn = "merge_rule5_with_minors_stats"
    /\ ret' = merge_rule5_with_minors_stats(args.rule5_df, args.batting_df,
                                            args.pitching_df)
    /\ UNCHANGED <<args, cycleVars, cacheVars>>

CallApplyFilters ==
    /\ ret = Pending /\ args.fn = "apply_filters"
    /\ ret' = apply_filters(args.df, args.search, args.teams, args.positions,
                            args.levels, args.age_range)
    /\ UNCHANGED <<args, cycleVars, cacheVars>>

CallAAASection ==
    /\ ret = Pending /\ args.fn = "display_aaa_section"
    /\ ret' = display_aaa_section(args.df, args.savant_df)
    /\ UNCHANGED <<args, cycleVars, cacheVars>>

NextTable == CallMergeSavant \/ CallMergeMinors \/ CallApplyFilters \/ CallAAASection

SpecTable == InitTable /\ [][NextTable]_vars
----------------------------------------------------------------------------
(* Claims about the merges and the filters (SpecTable) *)

Called(fn) == args.fn = fn /\ ret # Pending

\* A name trimmed and lower-cased; a missing name stays missing
NameKey(v) == IF v.k = "str" THEN Str(Lower(Strip(v.s))) ELSE Null

\* The (eligibility row, metric row) pairs the join is to emit
JoinPairs(rule5_df, savant_df) ==
    {p \in (1..Len(rule5_df.rows)) \X (1..Len(savant_df.rows)) :
        /\ rule5_df.rows[p[1]]["Level"] = Str(T_AAA)
        /\ NameKey(rule5_df.rows[p[1]]["Player"]) = NameKey(savant_df.rows[p[2]]["Player"])}

\* What an output row is to carry of the pair it comes from
PairValues(l, r) ==
    <<l["Player"], l["Level"], l["Current Org"], l["Org Rank"], l["Age"],
      r["Player"], r["Prospect Score"], r["Player Type"]>>

RowValues(row) ==
    <<row["Player"], row["Level"], row["Current Org"], row["Org Rank"], row["Age"],
      row["Player_savant"], row["Prospect Score"], row["Player Type"]>>

\* C7: merge_rule5_with_savant emits one row per (eligibility row, metric
\* row) pair whose eligibility Level is 'AAA' and whose names are equal after
\* trimming and lower-casing (two missing names count as equal), and no other
\* row: m x n rows for m and n rows sharing a name. Each row carries the
\* eligibility row's Org Rank and the metric row's Prospect Score;
\* 'Jon Singleton' (AAA, org rank 5) with 'jon singleton ' (score 0.82) gives
\* exactly one row with prospect score 82 and org rank 5.
C7_JoinOnNormalizedName ==
    (Called("merge_rule5_with_savant") /\ "Level" \in args.rule5_df.cols) =>
        LET pairs == JoinPairs(args.rule5_df, args.savant_df)
            out == ret.df.rows
            ValuesOf(p) == PairValues(args.rule5_df.rows[p[1]], args.savant_df.rows[p[2]])
        IN  /\ ret.exc = "none"
            /\ Len(out) = Cardinality(pairs)
            /\ \A k \in 1..Len(out) : \E p \in pairs : RowValues(out[k]) = ValuesOf(p)
            /\ \A p \in pairs :
                 Cardinality({k \in 1..Len(out) : RowValues(out[k]) = ValuesOf(p)})
                   = Cardinality({q \in pairs : ValuesOf(q) = ValuesOf(p)})
            /\ (/\ args.rule5_df = ResultFrame(<<player_dict(P_JS, team_abbr(1))>>)
                /\ args.savant_df = DataFrame(<<hitter_dict(S_Hit)>>))
               => /\ Len(out) = 1
                  /\ out[1]["Prospect Score"] = Num(Hundredths(82, 0))
                  /\ out[1]["Org Rank"] = Num(Hundredths(5, 0))

\* 'Jon Singleton' (AAA) joined 'jon singleton ' while 'Ab' (AA) did not join 'Ab'
C7_Witness ==
    /\ Called("merge_rule5_with_savant")
    /\ args.rule5_df = ResultFrame(<<player_dict(P_JS, team_abbr(1)),
                                     player_dict(P_AB, team_abbr(1))>>)
    /\ args.savant_df = DataFrame(<<hitter_dict(S_Hit), pitcher_dict(S_Pit)>>)
    /\ Len(ret.df.rows) = 1
    /\ ret.df.rows[1]["Prospect Score"] = Num(Hundredths(82, 0))
    /\ ret.df.rows[1]["Org Rank"] = Num(Hundredths(5, 0))

\* C8: each of merge_rule5_with_savant, merge_rule5_with_minors_stats and
\* apply_filters (whatever the filters, the search text being a valid
\* pattern), given an empty table on an input side, the column-less one
\* included, raises nothing and returns an empty table for that side.
C8_EmptyInEmptyOut ==
    /\ (Called("merge_rule5_with_savant")
        /\ (IsEmpty(args.rule5_df) \/ IsEmpty(args.savant_df)))
       => (ret.exc = "none" /\ IsEmpty(ret.df))
    /\ Called("merge_rule5_with_minors_stats")
       => /\ ret.exc = "none"
          /\ (IsEmpty(args.rule5_df) \/ IsEmpty(args.batting_df))
             => IsEmpty(ret.hitters_merged)
          /\ (IsEmpty(args.rule5_df) \/ IsEmpty(args.pitching_df))
             => IsEmpty(ret.pitchers_merged)
    /\ (Called("apply_filters") /\ IsEmpty(args.df)
        /\ ~(Truthy(args.search) /\ RegexError(args.search.s)))
       => (ret.exc = "none" /\ IsEmpty(ret.df))

\* C9: apply_filters with search, teams, positions, levels and age_range all
\* absent returns a table equal to its input (same columns, same rows in the
\* same order) and leaves the input as it was.
C9_NoFilterIdentity ==
    (/\ Called("apply_filters")
     /\ IsNull(args.search) /\ IsNull(args.teams) /\ IsNull(args.positions)
     /\ IsNull(args.levels) /\ IsNull(args.age_range))
    => (ret.exc = "none" /\ ret.df = args.df /\ ret.caller_df = args.df)

\* A table of two rows went through apply_filters with no filter
C9_Witness ==
    /\ Called("apply_filters")
    /\ IsNull(args.search) /\ IsNull(args.teams) /\ IsNull(args.positions)
    /\ IsNull(args.levels) /\ IsNull(args.age_range)
    /\ Len(args.df.rows) = 2 /\ args.df.rows[1] # args.df.rows[2]
    /\ Len(ret.df.rows) = 2

\* A filter is supplied when it is given and not empty
Supplied(f) == f.k \in {"list", "tuple"} /\ f.s # <<>>

\* The row satisfies every supplied filter
Keeps(row, teams, positions, levels, age_range) ==
    /\ Supplied(teams) => \E i \in 1..Len(teams.s) : teams.s[i] = row["Current Org"]
    /\ Supplied(positions) => \E i \in 1..Len(positions.s) : positions.s[i] = row["Position"]
    /\ Supplied(levels) => \E i \in 1..Len(levels.s) : levels.s[i] = row["Level"]
    /\ Supplied(age_range) =>
         /\ row["Age"].k = "num"
         /\ age_range.s[1] <= row["Age"].n /\ row["Age"].n <= age_range.s[2]

\* apply_filters with the k-th of the four filters alone
OneFilter(d, k) ==
    apply_filters(d, Null,
                  IF k = 1 THEN args.teams ELSE Null,
                  IF k = 2 THEN args.positions ELSE Null,
                  IF k = 3 THEN args.levels ELSE Null,
                  IF k = 4 THEN args.age_range ELSE Null).df

FilterOrders == {o \in [1..4 -> 1..4] : \A i, j \in 1..4 : o[i] = o[j] => i = j}

\* C10: without a search text and on a table that has the columns,
\* apply_filters returns exactly the input rows that satisfy every supplied
\* (given, non-empty) filter - organization, position and level in the given
\* sets, lo <= age <= hi, a missing age failing the range - in their input
\* order; applying the filters one at a time in any order gives the same.
C10_FiltersConjunction ==
    (Called("apply_filters") /\ ~Truthy(args.search) /\ args.df.cols # {}) =>
        /\ ret.exc = "none"
        /\ ret.df.cols = args.df.cols
        /\ ret.df.rows = SelectRows(args.df.rows,
              [i \in 1..Len(args.df.rows) |->
                 Keeps(args.df.rows[i], args.teams, args.positions, args.levels,
                       args.age_range)])
        /\ \A o \in FilterOrders :
             OneFilter(OneFilter(OneFilter(OneFilter(args.df, o[1]), o[2]), o[3]), o[4])
               = ret.df

\* All four filters supplied: the row aged exactly hi is kept, the row of
\* the other organization with a missing age is not
C10_Witness ==
    /\ Called("apply_filters")
    /\ Supplied(args.teams) /\ Supplied(args.positions) /\ Supplied(args.levels)
    /\ args.age_range = Tuple(Hundredths(22, 50), Hundredths(27, 0))
    /\ Len(args.df.rows) = 2
    /\ \E i \in 1..2 : IsNull(args.df.rows[i]["Age"])
    /\ Len(ret.df.rows) = 1
    /\ ret.df.rows[1]["Age"] = Num(Hundredths(27, 0))
----------------------------------------------------------------------------
(* Claims about the search filter (SpecTable) *)

\* The text holds pat as a literal substring, case ignored
LiteralIn(pat, t) ==
    \E i \in 1..(Len(t) - Len(pat) + 1) :
        \A j \in 1..Len(pat) : LowerChar(pat[j]) = LowerChar(t[i + j - 1])

\* C11: for every non-empty search text, '.', '*', '(' and '[' included, the
\* search filter of apply_filters raises nothing and keeps exactly the rows
\* whose player name holds the text as a literal substring, case ignored; a
\* row with a missing name is dropped.
C11_SearchLiteral ==
    (/\ Called("apply_filters") /\ Truthy(args.search) /\ args.df.cols # {}
     /\ IsNull(args.teams) /\ IsNull(args.positions) /\ IsNull(args.levels)
     /\ IsNull(args.age_range))
    => /\ ret.exc = "none"
       /\ ret.df.rows = SelectRows(args.df.rows,
             [i \in 1..Len(args.df.rows) |->
                /\ args.df.rows[i]["Player"].k = "str"
                /\ LiteralIn(args.search.s, args.df.rows[i]["Player"].s)])
----------------------------------------------------------------------------
(* SpecHelper: one call of a helper per input *)

MaxTokens == 2

\* str.join: the texts of ts with sep between them
RECURSIVE Join(_, _)
Join(ts, sep) == IF ts = <<>> THEN <<>>
                 ELSE IF Len(ts) = 1 THEN ts[1]
                 ELSE ts[1] \o sep \o Join(Tail(ts), sep)

T_XYZ == <<"X", "Y", "Z">>

\* The level tokens of the season-stat provider, and one it does not have
LevelTokens == {level_order[i] : i \in 1..Len(level_order)} \cup {T_XYZ}

TokenSeqs == UNION {[1..k -> LevelTokens] : k \in 1..MaxTokens}

Separators == { <<",">>, <<" ", ",", " ">> }

LevelInputs ==
    {Str(Join(ts, sep)) : ts \in TokenSeqs, sep \in Separators}
    \cup {Null, Str(<<>>), Num(Hundredths(3, 0))}

\* Source values of a numeric field: numbers, numeric and other texts
NumericInputs ==
    { Null, Num(0), Num(Hundredths(5, 0)), Num(Hundredths(22, 50)),
      Str(<<>>), Str(<<"0">>), Str(<<"2", "7">>), Str(<<" ", "5", " ">>),
      Str(<<"a", "b", "c">>) }

PositionInputs ==
    { Null, Str(<<>>), Str(T_SS2B), Str(T_SS), Str(<<" ", "S", "S", " ", "/", " ", "2", "B">>),
      Str(<<"/", "2", "B">>), Str(<<"1", "B", "/">>), Str(<<" ", " ">>),
      Str(<<"S", "S", "/", "2", "B", "/", "1", "B">>), Num(Hundredths(6, 0)) }

\* Roster records of an eligible player, by what the numeric fields hold
NumericPayloads ==
    {Obj([player |-> Str(T_AB), mlevel |-> Str(T_AA), options |-> Str(T_R5),
          age |-> a, Org_Rank_Next |-> o, Overall_Rank |-> a]) : a, o \in NumericInputs}
    \cup {Obj([player |-> Str(T_AB), mlevel |-> Str(T_AA), options |-> Str(T_R5)])}

\* Aggregates of a cycle: the rows fetch_team_data makes of the positions
PositionAggregates ==
    {<<player_dict(Obj([player |-> Str(T_AB), position |-> p, options |-> Str(T_R5)]),
                   team_abbr(1)),
       player_dict(Obj([player |-> Str(T_JS), position |-> q, options |-> Str(T_R5)]),
                   team_abbr(2))>> :
        p, q \in {x \in PositionInputs : x.k # "num"}}

\* Raw names: every text of at most MaxName characters of markup, letters
\* and blanks, the anchor tag around 'Jon Singleton', and values that are
\* no text
MaxName == 4

NameInputs ==
    {Str(t) : t \in UNION {[1..k -> {"<", ">", "a", " "}] : k \in 0..MaxName}}
    \cup {Str(T_TagJS), Null, Num(Hundredths(7, 0))}

HelperCalls ==
    {[fn |-> "get_highest_level", level_str |-> v] : v \in LevelInputs}
    \cup {[fn |-> "clean_player_name", name |-> v] : v \in NameInputs}
    \cup {[fn |-> "get_all_minors_stats", rb |-> rb, rp |-> rp] :
            rb \in LevelAnswers, rp \in LevelAnswers}
    \cup {[fn |-> "normalize_numeric_column", value |-> v] : v \in NumericInputs}
    \cup {[fn |-> "get_primary_position", position |-> v] : v \in PositionInputs}
    \cup {[fn |-> "fetch_team_data", teamid |-> 1, r |-> Json(JList(<<p>>))] :
            p \in NumericPayloads}
    \cup {[fn |-> "fetch_rule5_players", all_players |-> a] : a \in PositionAggregates}
    \cup {[fn |-> "merge_rule5_with_minors_stats", rule5_df |-> e,
           batting_df |-> b, pitching_df |-> p] :
            e \in {ResultFrame(<<player_dict(P_JS, team_abbr(1)),
                                 player_dict(P_AB, team_abbr(1))>>)},
            b \in {CleanNames(FrameOfItems(<<M_Bat>>)),
                   CleanNames(FrameOfItems(<<M_Pit, M_Bat>>))},
            p \in {CleanNames(FrameOfItems(<<M_Pit>>)),
                   CleanNames(FrameOfItems(<<M_Bat, M_Pit>>))}}

InitHelper ==
    /\ NoCycle /\ NoCache
    /\ args \in HelperCalls
    /\ ret = Pending

CallHighestLevel ==
    /\ ret = Pending /\ args.fn = "get_highest_level"
    /\ ret' = [exc |-> "none", value |-> get_highest_level(args.level_str)]
    /\ UNCHANGED <<args, cycleVars, cacheVars>>

CallNormalize ==
    /\ ret = Pending /\ args.fn = "normalize_numeric_column"
    /\ ret' = IF IsExc(normalize_numeric_column(args.value))
              THEN [exc |-> normalize_numeric_column(args.value).s[1], value |-> Null]
              ELSE [exc |-> "none", value |-> normalize_numeric_column(args.value)]
    /\ UNCHANGED <<args, cycleVars, cacheVars>>

CallPrimaryPosition ==
    /\ ret = Pending /\ args.fn = "get_primary_position"
    /\ ret' = IF IsExc(get_primary_position(args.position))
              THEN [exc |-> get_primary_position(args.position).s[1], value |-> Null]
              ELSE [exc |-> "none", value |-> get_primary_position(args.position)]
    /\ UNCHANGED <<args, cycleVars, cacheVars>>

CallCleanName ==
    /\ ret = Pending /\ args.fn = "clean_player_name"
    /\ ret' = [exc |-> "none", value |-> clean_player_name(args.name)]
    /\ UNCHANGED <<args, cycleVars, cacheVars>>

CallAllMinors ==
    /\ ret = Pending /\ args.fn = "get_all_minors_stats"
    /\ ret' = get_all_minors_stats(args.rb, args.rp)
    /\ UNCHANGED <<args, cycleVars, cacheVars>>

\* fetch_team_data on a payload of the helper inputs
CallTeamRows ==
    /\ ret = Pending /\ args.fn = "fetch_team_data"
    /\ ret' = LET x == fetch_team_data(team_abbr(args.teamid), args.r)
              IN  [exc |-> x.exc, players |-> x.players]
    /\ UNCHANGED <<args, cycleVars, cacheVars>>

\* fetch_rule5_players, lines 92-96, on an aggregate
CallResultFrame ==
    /\ ret = Pending /\ args.fn = "fetch_rule5_players"
    /\ ret' = [exc |-> "none", df |-> ResultFrame(args.all_players)]
    /\ UNCHANGED <<args, cycleVars, cacheVars>>

NextHelper ==
    \/ CallHighestLevel \/ CallNormalize \/ CallPrimaryPosition
    \/ CallTeamRows \/ CallResultFrame \/ CallMergeMinors \/ CallCleanName
    \/ CallAllMinors

SpecHelper == InitHelper /\ [][NextHelper]_vars
----------------------------------------------------------------------------
(* Claims about the helpers (SpecHelper) *)

\* AAA > AA > A+ > A > Rk > FRk
Hierarchy == << <<"A", "A", "A">>, <<"A", "A">>, <<"A", "+">>, <<"A">>,
                <<"R", "k">>, <<"F", "R", "k">> >>

RankOf(tok) == CHOOSE i \in 1..Len(Hierarchy) : Hierarchy[i] = tok

\* The highest-ranked token of ts, ts holding one of the hierarchy
Best(ts) ==
    LET known == {i \in 1..Len(ts) : SeqContains(Hierarchy, ts[i])}
    IN  ts[CHOOSE i \in known : \A j \in known : RankOf(ts[i]) <= RankOf(ts[j])]

\* The token lists a level text is the comma-joined form of
TokensOf(v) ==
    {ts \in TokenSeqs : \E sep \in Separators : v.s = Join(ts, sep)}

\* What the reduction is to give
Reduced(v) ==
    IF v.k = "str" /\ \E ts \in TokensOf(v) : \E i \in 1..Len(ts) : SeqContains(Hierarchy, ts[i])
    THEN Str(Best(CHOOSE ts \in TokensOf(v) : TRUE))
    ELSE v

\* Every aLevel of the merged table is the reduced aLevel of a stats row of
\* the same player
AllReduced(merged, stats_df) ==
    /\ "aLevel" \in merged.cols
    /\ \A k \in 1..Len(merged.rows) :
         \E j \in 1..Len(stats_df.rows) :
            /\ merged.rows[k]["PlayerName"] = stats_df.rows[j]["PlayerName"]
            /\ merged.rows[k]["aLevel"] = Reduced(stats_df.rows[j]["aLevel"])

\* C12: get_highest_level of a comma-joined list of level tokens holding one
\* of AAA > AA > A+ > A > Rk > FRk is the highest-ranked token present,
\* whatever the token order and the whitespace around tokens ('AA,AAA' ->
\* 'AAA', 'A,AA' -> 'AA', 'Rk' -> 'Rk'); a text without a recognized token
\* comes back unchanged ('XYZ' -> 'XYZ'); merge_rule5_with_minors_stats
\* reduces every aLevel of both tables it returns.
C12_HighestLevel ==
    /\ Called("get_highest_level") =>
         /\ ret.exc = "none"
         /\ ret.value = Reduced(args.level_str)
         /\ args.level_str = Str(<<"A", "A", ",", "A", "A", "A">>) => ret.value = Str(<<"A", "A", "A">>)
         /\ args.level_str = Str(<<"A", ",", "A", "A">>) => ret.value = Str(<<"A", "A">>)
         /\ args.level_str = Str(<<"R", "k">>) => ret.value = Str(<<"R", "k">>)
         /\ args.level_str = Str(T_XYZ) => ret.value = Str(T_XYZ)
    /\ Called("merge_rule5_with_minors_stats") =>
         /\ ret.exc = "none"
         /\ AllReduced(ret.hitters_merged, args.batting_df)
         /\ AllReduced(ret.pitchers_merged, args.pitching_df)

\* 'A , AAA' gave 'AAA'
C12_Witness ==
    /\ Called("get_highest_level")
    /\ args.level_str = Str(<<"A", " ", ",", " ", "A", "A", "A">>)
    /\ ret.value = Str(<<"A", "A", "A">>)

\* C13: normalize_numeric_column gives the number 0.0, not missing, for the
\* text '0', missing for the empty text and missing for a non-numeric text
\* such as 'abc', and raises nothing.
C13_NormalizeText ==
    Called("normalize_numeric_column") =>
        /\ ret.exc = "none"
        /\ args.value = Str(<<"0">>) => (ret.value = Num(0) /\ ~IsNull(ret.value))
        /\ args.value = Str(<<>>) => IsNull(ret.value)
        /\ args.value = Str(<<"a", "b", "c">>) => IsNull(ret.value)

\* The text '0' was normalized to the number 0
C13_Witness ==
    /\ Called("normalize_numeric_column")
    /\ args.value = Str(<<"0">>)
    /\ ret.value = Num(0)

\* What the claim lets a source value become: zero for a zero, the number
\* for a number or numeric text, missing for the rest
ZeroSource(v) == v = Num(0) \/ v = Str(<<"0">>)

\* C14: in the rows fetch_team_data builds, Age, Org Rank and Overall Rank
\* are the number 0 when the source value is zero (the number 0 or the text
\* '0'), and missing only when the source value is absent, empty or
\* unparseable.
C14_ZeroIsNotMissing ==
    (Called("fetch_team_data") /\ ret.exc = "none" /\ Len(ret.players) = 1) =>
        LET p == args.r.body.items[1]
            row == ret.players[1]
            Emitted(key, col) ==
                /\ ZeroSource(Get(p, key)) => row[col] = Num(0)
                /\ IsNull(row[col]) =>
                     \/ IsNull(Get(p, key))
                     \/ Get(p, key) = Str(<<>>)
                     \/ (Get(p, key).k = "str" /\ IsExc(ParseFloat(Get(p, key).s)))
        IN  /\ Emitted("age", "Age")
            /\ Emitted("Org_Rank_Next", "Org Rank")
            /\ Emitted("Overall_Rank", "Overall Rank")

\* The index of the first '/' of t, Len(t) + 1 without one
FirstSlash(t) ==
    CHOOSE i \in 1..(Len(t) + 1) :
        /\ i = Len(t) + 1 \/ t[i] = "/"
        /\ \A j \in 1..(i - 1) : t[j] # "/"

\* v is t without the whitespace around it
Trimmed(v, t) ==
    /\ v = <<>> \/ (v[1] # " " /\ v[Len(v)] # " ")
    /\ \E lo \in 1..(Len(t) + 1) :
         /\ lo + Len(v) - 1 <= Len(t)
         /\ \A j \in 1..Len(v) : v[j] = t[lo + j - 1]
         /\ \A j \in 1..Len(t) : (j < lo \/ j > lo + Len(v) - 1) => t[j] = " "

\* C15: get_primary_position gives the text before the first '/' without
\* the whitespace around it ('SS/2B' -> 'SS'), '' for '' and None for None,
\* raising nothing; applied to its own result it changes nothing, so lines
\* 94-96 of fetch_rule5_players leave every position fetch_team_data made
\* as it was.
C15_PrimaryPosition ==
    /\ (Called("get_primary_position") /\ args.position.k \in {"null", "str"}) =>
         /\ ret.exc = "none"
         /\ args.position = Str(T_SS2B) => ret.value = Str(T_SS)
         /\ args.position = Str(<<>>) => ret.value = Str(<<>>)
         /\ IsNull(args.position) => IsNull(ret.value)
         /\ (args.position.k = "str" /\ args.position.s # <<>>) =>
              /\ ret.value.k = "str"
              /\ Trimmed(ret.value.s,
                         SubSeq(args.position.s, 1, FirstSlash(args.position.s) - 1))
         /\ get_primary_position(ret.value) = ret.value
    /\ Called("fetch_rule5_players") =>
         /\ Len(ret.df.rows) = Len(args.all_players)
         /\ \A i \in 1..Len(args.all_players) :
              ret.df.rows[i]["Position"] = args.all_players[i]["Position"]

\* ' SS / 2B' gave 'SS'
C15_Witness ==
    /\ Called("get_primary_position")
    /\ args.position = Str(<<" ", "S", "S", " ", "/", " ", "2", "B">>)
    /\ ret.value = Str(T_SS)
----------------------------------------------------------------------------
(* Claims about the worker pool (SpecPool) *)

\* C16: in a fetch cycle one task is dispatched for each organization of
\* TEAMS (30 of them), each issues one request, and at every moment at most
\* MAX_WORKERS (5) requests are in flight.
C16_PoolBound ==
    /\ Len(TEAMS) = 30 /\ MAX_WORKERS = 5
    /\ Orgs \subseteq DOMAIN TEAMS
    /\ Cardinality(Running) <= MAX_WORKERS
    /\ pc # "submit" => \A t \in Orgs : task[t] # "new"
    /\ \A t \in Orgs :
         /\ requests[t] <= 1
         /\ requests[t] = 1 <=> task[t] \in {"running", "finished", "collected"}
    /\ pc = "done" => \A t \in Orgs : requests[t] = 1

\* The pool is full while a task still waits for a worker
C16_Witness ==
    /\ Cardinality(Running) = MAX_WORKERS
    /\ \E t \in Orgs : task[t] = "queued"
----------------------------------------------------------------------------
(* More claims about one fetch cycle (Spec) *)

\* The rows of the aggregate list that belong to an organization
PlayersOf(players, t) ==
    SelectRows(players,
               [i \in 1..Len(players) |-> players[i]["Current Org"] = team_abbr(t)])

\* C17: within a fetch cycle each organization's roster is requested once:
\* no request is issued a second time, failed or not, every organization has
\* been requested once when the cycle returns, and an organization whose
\* request failed has no row in the aggregate.
C17_NoRetry ==
    \A t \in Orgs :
        /\ requests[t] <= 1
        /\ task[t] \in {"running", "finished", "collected"} => requests[t] = 1
        /\ resp[t].kind \in RequestFailures =>
             /\ PlayersOf(all_players, t) = <<>>
             /\ pc = "done" => RowsOf(df.rows, t) = <<>>

\* A cycle returned with rows although an organization's only request failed
C17_Witness ==
    /\ pc = "done"
    /\ \E t \in Orgs : resp[t].kind \in RequestFailures /\ requests[t] = 1
    /\ df.rows # <<>>

\* The rows of every organization stand next to each other in the list
InBlocks(players) ==
    \A i, j, k \in 1..Len(players) :
        (i < j /\ j < k /\ players[i]["Current Org"] = players[k]["Current Org"])
            => players[j]["Current Org"] = players[i]["Current Org"]

\* C18: a task writes only its own player list (the one its future hands
\* back), and never the list of another task or the aggregate; the aggregate
\* is written only by the collection loop, which appends the whole list of
\* one finished task at a time, so the rows of two organizations never
\* interleave.
C18_NoSharedWrites ==
    /\ []InBlocks(all_players)
    /\ [][ /\ \A t \in Orgs :
                future'[t] # future[t] =>
                    /\ task[t] = "running" /\ task'[t] = "finished"
                    /\ \A u \in Orgs \ {t} : future'[u] = future[u]
                    /\ all_players' = all_players
           /\ all_players' # all_players =>
                /\ pc = "collect"
                /\ future' = future
                /\ \E t \in Orgs :
                     /\ task[t] = "finished" /\ task'[t] = "collected"
                     /\ all_players' = all_players \o future[t].players
         ]_vars

\* Two organizations with two rows each were collected
C18_Witness ==
    /\ Len(all_players) >= 4
    /\ \E t, u \in Orgs :
         /\ t # u
         /\ Len(PlayersOf(all_players, t)) = 2
         /\ Len(PlayersOf(all_players, u)) = 2

\* C19: the completed count of a fetch cycle starts at 0, never decreases,
\* grows by exactly one whenever it changes and never exceeds the number of
\* organizations, so completed/total stays within [0, 1].
C19_ProgressMonotone ==
    /\ completed = 0
    /\ [](0 <= completed /\ completed <= Cardinality(Orgs))
    /\ [][completed' = completed \/ completed' = completed + 1]_vars

\* The count reached the total, and the cycle returned
C19_Witness ==
    /\ pc = "done"
    /\ completed = Cardinality(Orgs)
    /\ \E t \in Orgs : Len(future[t].players) = 2
----------------------------------------------------------------------------
(* src/pages/player_data.py: display_filters_and_table *)

\* A column's order in sort_values(ascending=True, na_position='last')
ColLess(x, y) == x.k = "num" /\ (y.k = "null" \/ (y.k = "num" /\ x.n < y.n))

\* Lines 216-220: by=["Org Rank", "Overall Rank"]
RowLess(a, b) ==
    \/ ColLess(a["Org Rank"], b["Org Rank"])
    \/ /\ a["Org Rank"] = b["Org Rank"]
       /\ ColLess(a["Overall Rank"], b["Overall Rank"])

\* The sort of several columns is stable: a row goes behind the rows that
\* do not come after it
RECURSIVE InsertRow(_, _)
InsertRow(row, sorted) ==
    IF sorted = <<>> THEN <<row>>
    ELSE IF RowLess(row, Head(sorted)) THEN <<row>> \o sorted
    ELSE <<Head(sorted)>> \o InsertRow(row, Tail(sorted))

RECURSIVE SortRows(_)
SortRows(rows) ==
    IF rows = <<>> THEN <<>>
    ELSE InsertRow(rows[Len(rows)], SortRows(SubSeq(rows, 1, Len(rows) - 1)))

\* df.sort_values(by=["Org Rank", "Overall Rank"], ascending=[True, True],
\*                na_position='last')
sort_values(d) == [d EXCEPT !.rows = SortRows(d.rows)]

\* int(x) of a non-negative number in hundredths
IntOf(n) == (n \div 100) * 100

ColumnValues(d, col) == {d.rows[i][col] : i \in 1..Len(d.rows)}

\* Series.min() and Series.max(), missing values skipped
MinOf(vals) == CHOOSE v \in vals : \A w \in vals : v.n <= w.n
MaxOf(vals) == CHOOSE v \in vals : \A w \in vals : v.n >= w.n

\* Lines 205-210: the age slider left where it starts
DefaultAgeRange(d) ==
    LET ages == {v \in ColumnValues(d, "Age") : v.k = "num"}
    IN  IF ages # {} THEN Tuple(IntOf(MinOf(ages).n), IntOf(MaxOf(ages).n))
        ELSE Null

\* Line 193: sorted(df["Position"].unique()) compares a missing position
\* with a text and raises TypeError
PositionOptionsRaise(d) ==
    /\ Null \in ColumnValues(d, "Position")
    /\ \E v \in ColumnValues(d, "Position") : v # Null

\* display_filters_and_table(df) with the widgets holding search and the
\* three selections, the age slider left at its default: the exception that
\* leaves it, else the table handed to display_all_players_table
display_filters_and_table(d, search, teams_filter, position_filter, level_filter) ==
    IF PositionOptionsRaise(d)
    THEN [exc |-> "TypeError", filtered_df |-> EmptyDataFrame]
    ELSE LET f == apply_filters(d, search, teams_filter, position_filter,
                                level_filter, DefaultAgeRange(d))
         IN  IF f.exc # "none" THEN [exc |-> f.exc, filtered_df |-> EmptyDataFrame]
             ELSE [exc |-> "none", filtered_df |-> sort_values(f.df)]

----------------------------------------------------------------------------
(* SpecDisplay: the table of a returned cycle is displayed *)

DisplayResponses ==
    { Failed("timeout"), Json(JList(<<P_JS, P_Not, P_AB>>)), Json(JList(<<P_AB>>)) }

\* The states fetch_rule5_players returns in, for every choice of answers
\* and every order of collection
DisplayOutcomes ==
    {[resp |-> rs,
      all_players |-> CollectAll(rs, o, NumTeams).all_players,
      completed |-> CollectAll(rs, o, NumTeams).completed,
      log |-> CollectAll(rs, o, NumTeams).log] :
        rs \in [TeamIds -> DisplayResponses], o \in CollectionOrders}

\* What the widgets hold
WidgetStates ==
    {[fn |-> "display_filters_and_table", search |-> Str(<<>>), teams_filter |-> t,
      position_filter |-> List(<<>>), level_filter |-> List(<<>>)] :
        t \in {List(<<>>), List(<<team_abbr(1), team_abbr(2)>>)}}

InitDisplay ==
    /\ \E c \in DisplayOutcomes :
         /\ resp = c.resp
         /\ all_players = c.all_players
         /\ completed = c.completed
         /\ log = c.log
         /\ df = ResultFrame(c.all_players)
    /\ pc = "done"
    /\ task = [t \in TeamIds |-> "collected"]
    /\ future = [t \in TeamIds |-> TaskOutcome[t][resp[t]]]
    /\ requests = [t \in TeamIds |-> 1]
    /\ NoCache
    /\ args \in WidgetStates
    /\ ret = Pending

\* render(), lines 43 and 62: the table is displayed when it is not empty
DisplayTable ==
    /\ ret = Pending /\ args.fn = "display_filters_and_table"
    /\ ~IsEmpty(df)
    /\ ret' = display_filters_and_table(df, args.search, args.teams_filter,
                                        args.position_filter, args.level_filter)
    /\ UNCHANGED <<args, cycleVars, cacheVars>>

NextDisplay == DisplayTable

SpecDisplay == InitDisplay /\ [][NextDisplay]_vars
----------------------------------------------------------------------------
(* Claims about the displayed table (SpecDisplay) *)

\* The table displayed had the futures been collected in the order of TEAMS
InTeamsOrder ==
    display_filters_and_table(
        ResultFrame(CollectAll(resp, [i \in 1..NumTeams |-> i], NumTeams).all_players),
        args.search, args.teams_filter, args.position_filter, args.level_filter)

\* C20: for given answers of the organizations, the rows of the all-players
\* table come in one order, the one of the sort on (Org Rank, Overall Rank,
\* missing last), whatever the order in which the tasks completed, rows of
\* equal or missing ranks included.
C20_OrderFromSortAlone ==
    (Called("display_filters_and_table") /\ ret.exc = "none") =>
        ret.filtered_df.rows = InTeamsOrder.filtered_df.rows
----------------------------------------------------------------------------
(* Claims about the columns of the merged tables (SpecTable) *)

\* The (eligibility row, season-stat row) pairs whose names are equal after
\* trimming and lower-casing
StatPairs(rule5_df, stats_df) ==
    {p \in (1..Len(rule5_df.rows)) \X (1..Len(stats_df.rows)) :
        NameKey(rule5_df.rows[p[1]]["Player"]) = NameKey(stats_df.rows[p[2]]["PlayerName"])}

\* Every eligibility value of the output row is the one of the row l
KeepsEligibility(out, row, l, rule5_df) ==
    /\ rule5_df.cols \subseteq out.cols
    /\ \A c \in rule5_df.cols : row[c] = l[c]

\* The secondary value of every column the two tables share is in the output
\* row under the suffixed name, those of the set dropped aside
SecondarySuffixed(out, row, r, rule5_df, second, suffix, dropped) ==
    \A c \in rule5_df.cols \cap second.cols :
        IF c \o suffix \in dropped THEN c \o suffix \notin out.cols
        ELSE c \o suffix \in out.cols /\ row[c \o suffix] = r[c]

\* One merged table against its inputs: every output row comes from a pair
\* of joined rows, keeps that pair's eligibility values and carries its
\* secondary values of shared names under the suffix
SuffixedOutput(out, rule5_df, second, pairs, suffix, dropped) ==
    /\ "name_norm" \notin out.cols
    /\ \A k \in 1..Len(out.rows) : \E p \in pairs :
         /\ KeepsEligibility(out, out.rows[k], rule5_df.rows[p[1]], rule5_df)
         /\ SecondarySuffixed(out, out.rows[k], second.rows[p[2]], rule5_df,
                              second, suffix, dropped)

\* The merged table is the empty table of an early return
NotMerged(out) == out = EmptyDataFrame

\* C21 as amended: in both merges every output row keeps the eligibility
\* value of every eligibility column under the original name, and for every
\* column name the two tables share the secondary value is in the output
\* under the name suffixed '_savant' or '_fg', except that
\* merge_rule5_with_savant drops Age_savant and Position_savant; no output
\* has a name_norm column.
C21_EligibilityKept ==
    /\ (Called("merge_rule5_with_savant") /\ ret.exc = "none")
       => \/ NotMerged(ret.df)
          \/ SuffixedOutput(ret.df, args.rule5_df, args.savant_df,
                            JoinPairs(args.rule5_df, args.savant_df), "_savant",
                            {"Age_savant", "Position_savant"})
    /\ (Called("merge_rule5_with_minors_stats") /\ ret.exc = "none")
       => /\ \/ NotMerged(ret.hitters_merged)
             \/ SuffixedOutput(ret.hitters_merged, args.rule5_df, args.batting_df,
                               StatPairs(args.rule5_df, args.batting_df), "_fg", {})
          /\ \/ NotMerged(ret.pitchers_merged)
             \/ SuffixedOutput(ret.pitchers_merged, args.rule5_df, args.pitching_df,
                               StatPairs(args.rule5_df, args.pitching_df), "_fg", {})

\* 'Ab' aged 22.5 joined the season-stat record of 'Ab' aged 23: Age stays
\* 22.5 and Age_fg is 23
C21_Witness ==
    /\ Called("merge_rule5_with_minors_stats")
    /\ Len(ret.pitchers_merged.rows) = 1
    /\ "Age_fg" \in ret.pitchers_merged.cols
    /\ ret.pitchers_merged.rows[1]["Age"] = Num(Hundredths(22, 50))
    /\ ret.pitchers_merged.rows[1]["Age_fg"] = Num(Hundredths(23, 0))

\* C21 as stated: whenever the eligibility table and the secondary table
\* both have a column of the same name, the output keeps the eligibility
\* value under the original name and has the secondary value under the
\* suffixed name, in merge_rule5_with_savant as in
\* merge_rule5_with_minors_stats; no output has a name_norm column.
C21_SecondaryUnderSuffix ==
    /\ (Called("merge_rule5_with_savant") /\ ret.exc = "none")
       => \/ NotMerged(ret.df)
          \/ SuffixedOutput(ret.df, args.rule5_df, args.savant_df,
                            JoinPairs(args.rule5_df, args.savant_df), "_savant", {})
    /\ (Called("merge_rule5_with_minors_stats") /\ ret.exc = "none")
       => /\ \/ NotMerged(ret.hitters_merged)
             \/ SuffixedOutput(ret.hitters_merged, args.rule5_df, args.batting_df,
                               StatPairs(args.rule5_df, args.batting_df), "_fg", {})
          /\ \/ NotMerged(ret.pitchers_merged)
             \/ SuffixedOutput(ret.pitchers_merged, args.rule5_df, args.pitching_df,
                               StatPairs(args.rule5_df, args.pitching_df), "_fg", {})

\* C22: a call of merge_rule5_with_savant or merge_rule5_with_minors_stats
\* leaves every input table as it was before the call (same columns, same
\* rows), and a second call on the same inputs gives the same rows.
\* merge_rule5_with_minors_stats writes only to the copies it makes of its
\* three tables (lines 186, 192, 212); merge_rule5_with_savant writes to the
\* caller's savant_df (line 15), whose state after the call is ret.savant_df.
C22_MergesArePure ==
    /\ Called("merge_rule5_with_savant")
       => /\ ret.savant_df = args.savant_df
          /\ LET again == merge_rule5_with_savant(args.rule5_df, ret.savant_df)
             IN  /\ again.exc = ret.exc
                 /\ again.df.cols = ret.df.cols
                 /\ BagOf(again.df.rows) = BagOf(ret.df.rows)

----------------------------------------------------------------------------
(* Claims about the AAA advanced-metrics section (SpecTable) *)

\* The value is present and at least the threshold
AtLeast(v, threshold) == v.k = "num" /\ v.n >= threshold * 100

\* The indices of the merged rows of a player type that are to be shown
ToShow(merged, type, col, threshold) ==
    {i \in 1..Len(merged.rows) :
        /\ merged.rows[i]["Player Type"] = Str(<<type>>)
        /\ AtLeast(merged.rows[i][col], threshold)}

\* The shown rows are the merged rows of the indices, each as often
ShowsExactly(shown, merged, idx) ==
    /\ Len(shown.rows) = Cardinality(idx)
    /\ \A k \in 1..Len(shown.rows) : \E i \in idx : shown.rows[k] = merged.rows[i]
    /\ \A i \in idx :
         Cardinality({k \in 1..Len(shown.rows) : shown.rows[k] = merged.rows[i]})
           = Cardinality({j \in idx : merged.rows[j] = merged.rows[i]})

\* C23: in the AAA advanced-metrics section a merged hitter is shown if and
\* only if its PA is at least MIN_PA_THRESHOLD (50) and a merged pitcher if
\* and only if its IP is at least MIN_IP_THRESHOLD (20); a value at the
\* threshold is shown, a missing PA or IP is not; the eligibility table is
\* left with every row it had.
C23_Thresholds ==
    Called("display_aaa_section") =>
        LET merged == merge_rule5_with_savant(args.df, args.savant_df).df
        IN  /\ ret.exc = "none"
            /\ ShowsExactly(ret.hitters, merged, ToShow(merged, "Hitter", "PA", 50))
            /\ ShowsExactly(ret.pitchers, merged, ToShow(merged, "Pitcher", "IP", 20))
            /\ ret.df = args.df

\* Of the merged records of 'Jon Singleton' with 49 and with 50 plate
\* appearances and with no IP, only the one with 50 is shown, and he is
\* still in the eligibility table
C23_Witness ==
    /\ Called("display_aaa_section")
    /\ args.savant_df = DataFrame(<<hitter_dict(A_Hit(Num(Hundredths(49, 0)))),
                                    hitter_dict(A_Hit(Num(Hundredths(50, 0))))>>)
    /\ Len(ret.hitters.rows) = 1
    /\ ret.hitters.rows[1]["PA"] = Num(Hundredths(50, 0))
    /\ ret.pitchers.rows = <<>>
    /\ \E i \in 1..Len(ret.df.rows) : ret.df.rows[i]["Player"] = Str(T_JS)

----------------------------------------------------------------------------
(* Claims about the advanced-metrics records (SpecClient) *)

\* The records of the source that a response gives the client to build from
SourceRecords(r) ==
    IF r.kind = "json" /\ r.body.t = "dict" /\ r.body.dataT = "list"
    THEN r.body.items ELSE <<>>

\* The source supplies a score in the record
HasScore(item) ==
    "score_p" \in DOMAIN item.fields /\ item.fields["score_p"].k # "null"

\* C24: every record fetch_prospect_savant_data builds has a Prospect Score
\* equal to the source score times 100 when the source supplies a score, a
\* source score of 0 giving 0 and not a missing value, and a missing
\* Prospect Score exactly when the source omits the score; a source score in
\* [0, 1] gives a Prospect Score in [0, 100]. (Numbers are in hundredths.)
C24_ProspectScore ==
    (Called("fetch_prospect_savant_data") /\ ret.exc = "none") =>
        LET items == SourceRecords(args.r[1]) \o SourceRecords(args.r[2])
        IN  /\ Len(ret.df.rows) = Len(items)
            /\ \A i \in 1..Len(items) :
                 LET score == ret.df.rows[i]["Prospect Score"]
                 IN  /\ HasScore(items[i]) =>
                           /\ score.k = "num"
                           /\ score.n = items[i].fields["score_p"].n * 100
                           /\ items[i].fields["score_p"].n \in 0..100
                                 => score.n \in 0..Hundredths(100, 0)
                     /\ score.k = "null" <=> ~HasScore(items[i])

\* The client built records with the scores 82, 0 and none from a source
\* that gave 0.82, 0 and no score
C24_Witness ==
    /\ Called("fetch_prospect_savant_data")
    /\ ret.exc = "none"
    /\ Len(ret.df.rows) >= 3
    /\ ret.df.rows[1]["Prospect Score"] = Num(Hundredths(82, 0))
    /\ ret.df.rows[2]["Prospect Score"] = Num(0)
    /\ ret.df.rows[3]["Prospect Score"] = Null

----------------------------------------------------------------------------
(* Claims about the last fetch time (SpecCache) *)

\* C25: after every render the stored last fetch time is the fetch time
\* recorded by the fetch cycle that produced the eligibility table being
\* displayed; a render served from the cache leaves it unchanged, and it
\* changes only when a fresh cycle runs, after the cache expired or was
\* cleared. (A step that keeps the clock and leaves the cache filled is a
\* render; the cycle of an entry ran at the time the entry was stored.)
C25_LastFetchTime ==
    [][ /\ (now' = now /\ cache'.valid) =>
              /\ session'.shown
              /\ df' = cache'.value.df
              /\ session'.last_fetch_time = cache'.stored_at
        /\ (now' = now /\ cache.valid /\ cache' = cache /\ session.shown) =>
              session'.last_fetch_time = session.last_fetch_time
        /\ (session.shown /\ session'.last_fetch_time # session.last_fetch_time) =>
              /\ ~CacheFresh
              /\ \A t \in TeamIds : requests'[t] = requests[t] + 1
              /\ session'.last_fetch_time = now
      ]_vars

\* The page was rendered from the cache a half window after the only cycle,
\* and the last fetch time is still that cycle's
C25_Witness ==
    /\ session.shown /\ session.from_cache
    /\ now = TickSeconds
    /\ requests[1] = 1
    /\ cache.valid /\ cache.stored_at = 0
    /\ session.last_fetch_time = 0

----------------------------------------------------------------------------
(* Claims about clean_player_name (SpecHelper) *)

\* The text holds a tag: a '<', one character or more that are not '>', a '>'
HasTag(t) ==
    \E i, j \in 1..Len(t) :
        /\ j > i + 1 /\ t[i] = "<" /\ t[j] = ">"
        /\ \A k \in (i + 1)..(j - 1) : t[k] # ">"

\* The text neither starts nor ends with a blank
NoBlankEnds(t) == t = <<>> \/ (t[1] # " " /\ t[Len(t)] # " ")

\* C26: clean_player_name leaves no '<...>' tag in the name and no
\* whitespace around it, gives '' for a missing name and for a name that is
\* no text, raises on no markup (unbalanced and nested angle brackets
\* included) and gives its own result back when applied to it; so the
\* season-stat record whose raw name is an anchor tag around 'Jon Singleton'
\* joins the eligibility row of 'Jon Singleton' in
\* merge_rule5_with_minors_stats.
C26_CleanName ==
    /\ Called("clean_player_name") =>
          /\ ret.exc = "none"
          /\ ret.value.k = "str"
          /\ args.name.k # "str" => ret.value = Str(<<>>)
          /\ ~HasTag(ret.value.s)
          /\ NoBlankEnds(ret.value.s)
          /\ (args.name.k = "str" /\ ~SeqContains(args.name.s, "<"))
                => ret.value.s = Strip(args.name.s)
          /\ clean_player_name(ret.value) = ret.value
    /\ (/\ Called("merge_rule5_with_minors_stats")
        /\ args.batting_df = fetch_minors_batting_stats(Json(JList(<<M_Bat>>)), 0).df)
       => /\ Get(M_Bat, "PlayerName") = Str(T_TagJS)
          /\ \E i \in 1..Len(ret.hitters_merged.rows) :
                /\ ret.hitters_merged.rows[i]["Player"] = Str(T_JS)
                /\ ret.hitters_merged.rows[i]["PlayerName"] = Str(T_JS)
                /\ ret.hitters_merged.rows[i]["PA"] = Num(Hundredths(300, 0))

\* The anchor tag around 'Jon Singleton' was cleaned to 'Jon Singleton'
C26_Witness ==
    /\ Called("clean_player_name")
    /\ args.name = Str(T_TagJS)
    /\ HasTag(args.name.s)
    /\ ret.value = Str(T_JS)

\* C27: when a fetch cycle ends, the reported completed count is the number
\* of organizations whose task has finished, succeeded or failed: the
\* progress signal ends at total/total.
C27_ProgressReachesTotal ==
    pc = "done" =>
        /\ \A t \in Orgs : task[t] = "collected"
        /\ completed = Cardinality(Orgs)

\* C28: with every widget of display_filters_and_table at its default (empty
\* search, no team, position or level selected, the age slider at its
\* default range from int(minimum age) to int(maximum age)) the table
\* displayed holds every row of the eligibility table, players of fractional
\* age and of missing age included.
C28_DefaultsShowAll ==
    (/\ Called("display_filters_and_table")
     /\ ~Truthy(args.search) /\ ~Truthy(args.teams_filter)
     /\ ~Truthy(args.position_filter) /\ ~Truthy(args.level_filter))
    => /\ ret.exc = "none"
       /\ BagOf(ret.filtered_df.rows) = BagOf(df.rows)

----------------------------------------------------------------------------
(* Claims about get_all_minors_stats (SpecHelper) *)

\* The tables of the levels that are not empty, in the order of the levels
RECURSIVE NonEmptyInOrder(_, _, _)
NonEmptyInOrder(answers, col, i) ==
    IF i = 0 THEN <<>>
    ELSE NonEmptyInOrder(answers, col, i - 1)
         \o (IF MinorsStats(answers[i], col, 0).df.rows # <<>>
             THEN MinorsStats(answers[i], col, 0).df.rows ELSE <<>>)

\* The values of the record's columns, those of the others being missing
SameValues(row, source) ==
    /\ \A c \in DOMAIN source : row[c] = source[c]
    /\ \A c \in DOMAIN row \ DOMAIN source : row[c] = Null

\* One stat type: the levels are asked, AAA, AA, A+, A in that order, if and
\* only if the all-levels table is empty, and the result is then the rows of
\* the levels' tables in that order
FallbackOf(all_df, answers, col, calls, result) ==
    /\ calls = IF all_df.rows = <<>> \/ all_df.cols = {}
               THEN << <<"A", "A", "A">>, <<"A", "A">>, <<"A", "+">>, <<"A">> >>
               ELSE <<>>
    /\ calls = <<>> => result = all_df
    /\ calls # <<>> =>
         LET rows == NonEmptyInOrder(answers, col, 4)
         IN  /\ Len(result.rows) = Len(rows)
             /\ \A k \in 1..Len(rows) : SameValues(result.rows[k], rows[k])

\* C29: get_all_minors_stats issues the requests by level (AAA, AA, A+, A,
\* in that order) for a stat type if and only if the all-levels request of
\* that type returned an empty table; the result of the type is then the
\* concatenation, in that order, of the tables of the levels that are not
\* empty (empty if all four are); batting and pitching are decided
\* independently of each other.
C29_FallbackByLevel ==
    Called("get_all_minors_stats") =>
        /\ ret.exc = "none"
        /\ FallbackOf(fetch_minors_batting_stats(args.rb[0], 0).df, args.rb, "PA",
                      ret.batting_calls, ret.batting_df)
        /\ FallbackOf(fetch_minors_pitching_stats(args.rp[0], 0).df, args.rp, "IP",
                      ret.pitching_calls, ret.pitching_df)

\* The all-levels batting request failed and the one of pitching did not:
\* the batting table holds the records of AAA and A, in that order, and the
\* pitching levels were not asked
C29_Witness ==
    /\ Called("get_all_minors_stats")
    /\ args.rb[0] = Failed("timeout")
    /\ ret.batting_calls = MinorsLevels
    /\ ret.pitching_calls = <<>>
    /\ Len(ret.batting_df.rows) = 2
    /\ ret.batting_df.rows[1]["aLevel"] = Str(<<"A", "A", "A">>)
    /\ ret.batting_df.rows[2]["aLevel"] = Str(<<"A">>)
    /\ ret.pitching_df.rows # <<>>

----------------------------------------------------------------------------
(* Claims about the rows of an organization (Spec) *)

\* The record has 'R5' in its options or options1 field
Eligible(item) ==
    \E f \in {"options", "options1"} :
        f \in DOMAIN item.fields /\ item.fields[f] = Str(<<"R", "5">>)

\* The eligible records of a payload, in payload order
RECURSIVE EligibleItems(_)
EligibleItems(items) ==
    IF items = <<>> THEN <<>>
    ELSE (IF Eligible(Head(items)) THEN <<Head(items)>> ELSE <<>>)
         \o EligibleItems(Tail(items))

\* The task of t has ended by returning the rows of a roster payload
Returned(t) ==
    /\ task[t] \in {"finished", "collected"}
    /\ future[t].exc = "none"
    /\ resp[t].kind = "json"

\* C30: fetch_team_data for an organization returns one row for exactly the
\* players of the roster payload whose options or options1 field is 'R5', in
\* payload order, each with Current Org set to the organization's team code;
\* so every row of the aggregate table has a Current Org that is one of the
\* 30 configured team codes and is the code of the organization whose task
\* produced the row.
C30_EligibleRows ==
    /\ \A t \in Orgs :
         Returned(t) =>
            LET eligible == EligibleItems(resp[t].body.items)
                players == future[t].players
            IN  /\ Len(players) = Len(eligible)
                /\ \A k \in 1..Len(eligible) :
                      /\ players[k]["Player"] = Get(eligible[k], "player")
                      /\ players[k]["Level"] = Get(eligible[k], "mlevel")
                      /\ players[k]["Current Org"] = Str(<<TEAMS[t]>>)
    /\ pc = "done" =>
         \A i \in 1..Len(df.rows) :
            /\ Len(TEAMS) = 30
            /\ \E t \in Orgs :
                 /\ df.rows[i]["Current Org"] = Str(<<TEAMS[t]>>)
                 /\ Returned(t)
                 /\ \E k \in 1..Len(future[t].players) : future[t].players[k] = df.rows[i]

\* A returned cycle in which an organization's payload of three players, one
\* of them not eligible, gave two rows, and another organization gave one
C30_Witness ==
    /\ pc = "done"
    /\ \E t, u \in Orgs :
         /\ t # u
         /\ Len(resp[t].body.items) = 3
         /\ Len(RowsOf(df.rows, t)) = 2
         /\ Len(RowsOf(df.rows, u)) = 1

============================================================================
